---- MODULE Spec2Model ----
(***************************************************************************)
(* A model of the 3D Tiles tiler of isaac_user_interface                   *)
(* (src/backend/tiler): the tile system, the OBJ geometry container with   *)
(* its centroid crop and reference garbage collection, the OBJ reader and  *)
(* writer, the recursive tile generator and the command line driver.       *)
(*                                                                         *)
(* Numbers.  The code computes in 64-bit floats.  The model computes the   *)
(* same expressions exactly, over rationals kept as integer numerators     *)
(* over an explicit denominator, so rounding error is outside the model.   *)
(* Arrays are 0-based in the code and are sequences here: row i of an      *)
(* array X is X[i + 1]; Row(X, i) reads it the way numpy does, a negative  *)
(* index counting from the end.                                            *)
(***************************************************************************)
EXTENDS Integers, Sequences, FiniteSets, TLC

VARIABLES
    args,              \* the command line of the driver (in_obj, out_dir state, image size, debug flag)
    fs,                \* the file system under out_dir: path -> content
    phase,             \* where the driver run is: start, generating, writing, done, refused, failed
    exit_status,       \* the exit status of the process: -1 while it runs
    error,             \* the exception that ended the run, "none" otherwise
    geom,              \* the Geometry read from in_obj (NoGeom before the read)
    tile_system,       \* TileGenerator.tile_system
    min_zoom,          \* TileGenerator.min_zoom
    input_texel_size,  \* TileGenerator.input_texel_size
    up_texture_map,    \* TileGenerator.up_texture_map
    stack,             \* the call stack of generate_top_tiles / generate_tile
    meta,              \* the tile set metadata generate() builds: <<>> until the top tiles returned
    tool_failed,       \* an external tool has exited with a non-zero status in this run
    log,               \* the tiles of the "generate_tile %s" lines logged in this run
    crop,              \* state of the crop harness (SpecCrop)
    obj,               \* state of the OBJ reader/writer harness (SpecObj)
    tsys,              \* state of the tile system harness (SpecTile)
    rd,                \* state of the face line reader harness (SpecRead)
    mtl,               \* state of the MTL reader/writer harness (SpecMtl)
    gen,               \* state of the generator reuse harness (SpecReuse)
    leaf,              \* state of the leaf test harness (SpecLeaf)
    top,               \* state of the top tile harness (SpecTop)
    texels             \* state of the median texel size harness (SpecTexel)

vars == <<args, fs, phase, exit_status, error, geom, tile_system, min_zoom,
          input_texel_size, up_texture_map, stack, meta, tool_failed, log, crop, obj,
          tsys, rd, mtl, gen, leaf, top, texels>>

genVars == <<args, fs, phase, exit_status, error, geom, tile_system, min_zoom,
             input_texel_size, up_texture_map, stack, meta, tool_failed, log>>

unitVars == <<tsys, rd, mtl, gen, leaf, top, texels>>

----------------------------------------------------------------------------
(* Bounds of the model. *)

\* Longest face list of an input mesh.
MaxFaces == 2

\* Deepest zoom level a generate_tile call may be made at.
MaxZoom == 4

----------------------------------------------------------------------------
(* Program constants. *)

UPSAMPLE_FACTOR == 1

BIG_GEOMETRIC_ERROR == 100

INT32_MAX == 2147483647

\* parse_face_vertex: the value of a missing index
MISSING == -1

----------------------------------------------------------------------------
(* Small helpers. *)

RECURSIVE Pow2(_)
Pow2(n) == IF n = 0 THEN 1 ELSE 2 * Pow2(n - 1)

Max2(a, b) == IF a >= b THEN a ELSE b

Min2(a, b) == IF a <= b THEN a ELSE b

SetMax(S) == CHOOSE x \in S : \A y \in S : y <= x

SetMin(S) == CHOOSE x \in S : \A y \in S : x <= y

\* astype(np.int32) of a quotient a / b (b > 0): truncation toward zero
TruncDiv(a, b) == IF a >= 0 THEN a \div b ELSE -((-a) \div b)

\* numpy / Python indexing: a negative index counts from the end
NormIndex(i, n) == IF i < 0 THEN i + n ELSE i

IndexOk(i, n) == NormIndex(i, n) >= 0 /\ NormIndex(i, n) < n

Row(X, i) == X[NormIndex(i, Len(X)) + 1]

\* The element of a one-element set.  The({e : x \in {d}}) is e with x
\* standing for the value of d, computed once.
The(S) == CHOOSE x \in S : TRUE

\* The elements of a set of integers, ascending
SortedSeq(S) ==
    [j \in 1..Cardinality(S) |-> CHOOSE x \in S : Cardinality({y \in S : y < x}) = j - 1]

\* Rationals <<n, d>> with d > 0.
RatLeq(a, b) == a[1] * b[2] <= b[1] * a[2]

RatLess(a, b) == a[1] * b[2] < b[1] * a[2]

----------------------------------------------------------------------------
(* tile_system.py *)

\* Tile(zoom, xi, yi, zi)
Tile(zoom, xi, yi, zi) == [zoom |-> zoom, xi |-> xi, yi |-> yi, zi |-> zi]

\* A BoundingBox: corners are integer triples in units of 1 / den.
BoundingBox(min_corner, max_corner, den) ==
    [min_corner |-> min_corner, max_corner |-> max_corner, den |-> den]

\* A containment test closed at the maximum corner: min <= pt <= max
is_inside_closed(bbox, pt, pt_den) ==
    /\ \A a \in 1..3 : bbox.min_corner[a] * pt_den <= pt[a] * bbox.den
    /\ \A a \in 1..3 : pt[a] * bbox.den <= bbox.max_corner[a] * pt_den

\* BoundingBox.is_inside for one point pt / pt_den: min <= pt < max on all axes
is_inside(bbox, pt, pt_den) ==
    /\ \A a \in 1..3 : bbox.min_corner[a] * pt_den <= pt[a] * bbox.den
    /\ \A a \in 1..3 : pt[a] * bbox.den < bbox.max_corner[a] * pt_den

\* TileSystem(tile_origin, tile_scale): origin and scale in units of 1 / den
TileSystem(tile_origin, tile_scale, den) ==
    [tile_origin |-> tile_origin, tile_scale |-> tile_scale, den |-> den]

\* A path format without the zoom level: "{xi}/{yi}/{zi}" under a fixed
\* first component
get_path_without_zoom(tile) == <<0, tile.xi, tile.yi, tile.zi>>

\* TileSystem.get_path: "{zoom}/{xi}/{yi}/{zi}", the components of the path
get_path(tile) == <<tile.zoom, tile.xi, tile.yi, tile.zi>>

\* TileSystem.get_index_vec
get_index_vec(tile) == <<tile.xi, tile.yi, tile.zi>>

\* TileSystem.get_bounding_box: in units of 1 / (den * 2^zoom) the tile side
\* tile_scale / 2^zoom is tile_scale, and the origin is tile_origin * 2^zoom
TileSystem_get_bounding_box(ts, tile) ==
    LET idx == get_index_vec(tile)
        min_corner == [a \in 1..3 |->
                          ts.tile_origin[a] * Pow2(tile.zoom) + ts.tile_scale * idx[a]]
    IN  BoundingBox(min_corner,
                    [a \in 1..3 |-> min_corner[a] + ts.tile_scale],
                    ts.den * Pow2(tile.zoom))

\* TileSystem.get_index_vec_for_pt for the point pt / pt_den:
\* ((pt - origin) / (scale / 2^zoom)).astype(int32); astype drops the
\* fraction of the quotient, that is, rounds it toward zero
index_vec_for_pt(ts, pt, pt_den, zoom) ==
    [a \in 1..3 |->
        TruncDiv((pt[a] * ts.den - ts.tile_origin[a] * pt_den) * Pow2(zoom),
                 ts.tile_scale * pt_den)]

\* TileSystem.get_index_vec_for_pt for a point with integer coordinates
get_index_vec_for_pt(ts, pt, zoom) == index_vec_for_pt(ts, pt, 1, zoom)

\* get_children without the doubling of the parent's indices
get_children_not_doubled(tile) ==
    [k \in 1..8 |->
        Tile(tile.zoom + 1, tile.xi + ((k - 1) \div 4),
             tile.yi + (((k - 1) \div 2) % 2), tile.zi + ((k - 1) % 2))]

\* TileSystem.get_children: itertools.product([0, 1], repeat=3), zo fastest
get_children(tile) ==
    [k \in 1..8 |->
        Tile(tile.zoom + 1,
             2 * tile.xi + ((k - 1) \div 4),
             2 * tile.yi + (((k - 1) \div 2) % 2),
             2 * tile.zi + ((k - 1) % 2))]

----------------------------------------------------------------------------
(* obj_geometry.py: the Geometry container *)

\* Geometry(input_path, v, vt, vn, f, mtllib, usemtl, f_mtl).  f is a sequence
\* of faces, a face three face-vertices <<vi, ti, ni>> (the M x 3 x 3 tensor).
Geometry(v, vt, vn, f, mtllib, usemtl, f_mtl) ==
    [v |-> v, vt |-> vt, vn |-> vn, f |-> f, mtllib |-> mtllib,
     usemtl |-> usemtl, f_mtl |-> f_mtl]

\* The elements of s at the positions in keep, in order (numpy boolean mask)
RECURSIVE MaskSeq(_, _, _)
MaskSeq(s, keep, i) ==
    IF i > Len(s) THEN <<>>
    ELSE (IF i \in keep THEN <<s[i]>> ELSE <<>>) \o MaskSeq(s, keep, i + 1)

\* f[:, :, axis]: one column of the face tensor, an M x 3 array of references
Column(f, axis) == [i \in 1..Len(f) |-> [k \in 1..3 |-> f[i][k][axis]]]

\* keep_refs = np.unique(in_refs)
np_unique(in_refs) == SortedSeq({in_refs[i][k] : i \in 1..Len(in_refs), k \in 1..3})

\* remap_refs = np.full(n, INT32_MAX); remap_refs[keep_refs] = np.arange(...):
\* the array as a function of the row 0..n-1.  A negative reference counts
\* from the end; when keep_refs names one row twice (as r and as r - n)
\* numpy leaves the order of the two assignments open: ord says which one
\* stays.
remap_refs(keep_refs, n, ord) ==
    [p \in 0..(n - 1) |->
        LET hits == {j \in 1..Len(keep_refs) : NormIndex(keep_refs[j], n) = p}
        IN  IF hits = {} THEN INT32_MAX
            ELSE IF ord = "last" THEN SetMax(hits) - 1
            ELSE SetMin(hits) - 1]

\* A collection that renumbers the references and keeps every row of
\* in_objects where it was
garbage_collect_no_compaction(in_refs, in_objects, ord) ==
    The({IF \E j \in 1..Len(keep_refs) : ~IndexOk(keep_refs[j], Len(in_objects))
         THEN [ok |-> FALSE, out_refs |-> <<>>, out_objects |-> <<>>]
         ELSE The({[ok |-> TRUE,
                    out_refs |-> [i \in 1..Len(in_refs) |->
                                     [k \in 1..3 |->
                                         remap[NormIndex(in_refs[i][k], Len(in_objects))]]],
                    out_objects |-> in_objects] :
                   remap \in {remap_refs(keep_refs, Len(in_objects), ord)}}) :
         keep_refs \in {np_unique(in_refs)}})

\* garbage_collect(in_refs, in_objects): [ok |-> FALSE] stands for the
\* IndexError numpy raises for a reference that is out of range.
garbage_collect(in_refs, in_objects, ord) ==
    The({IF \E j \in 1..Len(keep_refs) : ~IndexOk(keep_refs[j], Len(in_objects))
         THEN [ok |-> FALSE, out_refs |-> <<>>, out_objects |-> <<>>]
         ELSE The({[ok |-> TRUE,
                    out_refs |-> [i \in 1..Len(in_refs) |->
                                     [k \in 1..3 |->
                                         remap[NormIndex(in_refs[i][k], Len(in_objects))]]],
                    out_objects |-> [j \in 1..Len(keep_refs) |->
                                        Row(in_objects, keep_refs[j])]] :
                   remap \in {remap_refs(keep_refs, Len(in_objects), ord)}}) :
         keep_refs \in {np_unique(in_refs)}})

\* np.mean(self.v[self.f[:, :, 0], :], axis=1) times 3: the sum of the three
\* position vertices of face i (the centroid is this over 3)
face_centroid_sum(g, i) ==
    [a \in 1..3 |-> Row(g.v, g.f[i][1][1])[a] + Row(g.v, g.f[i][2][1])[a]
                     + Row(g.v, g.f[i][3][1])[a]]

\* keep_faces by the vertices of the face in place of their mean: a face is
\* kept iff its three position vertices are inside
keep_faces_all_vertices(g, bbox) ==
    {i \in 1..Len(g.f) : \A k \in 1..3 : is_inside(bbox, Row(g.v, g.f[i][k][1]), 1)}

\* bbox.is_inside(face_centroids): the faces kept by a crop to bbox
keep_faces(g, bbox) ==
    {i \in 1..Len(g.f) : is_inside(bbox, face_centroid_sum(g, i), 3)}

\* The rest of Geometry.get_cropped once keep is known: the kept faces f, then
\* the three garbage collections
crop_faces(g, f, f_mtl, ord) ==
    The({IF ~(gv.ok /\ gvt.ok /\ gvn.ok)
         THEN [ok |-> FALSE,
               geom |-> Geometry(<<>>, <<>>, <<>>, <<>>, g.mtllib, g.usemtl, <<>>)]
         ELSE [ok |-> TRUE,
               geom |-> Geometry(
                   gv.out_objects, gvt.out_objects, gvn.out_objects,
                   [i \in 1..Len(f) |->
                       [k \in 1..3 |-> <<gv.out_refs[i][k], gvt.out_refs[i][k],
                                         gvn.out_refs[i][k]>>]],
                   g.mtllib, g.usemtl, f_mtl)] :
         gv \in {garbage_collect(Column(f, 1), g.v, ord)},
         gvt \in {garbage_collect(Column(f, 2), g.vt, ord)},
         gvn \in {garbage_collect(Column(f, 3), g.vn, ord)}})

\* Geometry.get_cropped(bbox): [ok |-> FALSE] stands for the IndexError
\* garbage_collect raises
get_cropped(g, bbox, ord) ==
    The({The({crop_faces(g, f, MaskSeq(g.f_mtl, keep, 1), ord) :
                 f \in {MaskSeq(g.f, keep, 1)}}) :
         keep \in {keep_faces(g, bbox)}})

\* Geometry.get_bounding_box: np.amin / np.amax over all rows of v
Geometry_get_bounding_box(g) ==
    BoundingBox([a \in 1..3 |-> SetMin({g.v[i][a] : i \in 1..Len(g.v)})],
                [a \in 1..3 |-> SetMax({g.v[i][a] : i \in 1..Len(g.v)})],
                1)

\* A bounding volume at the right centre with half lengths of zero
get_bounding_volume_centre_only(g) ==
    LET bbox == Geometry_get_bounding_box(g)
        c == [a \in 1..3 |-> bbox.min_corner[a] + bbox.max_corner[a]]
    IN  [box |-> <<c[1], c[2], c[3], 0, 0, 0, 0, 0, 0, 0, 0, 0>>, den |-> 2]

\* Geometry.get_bounding_volume: centroid and half lengths, here in halves
get_bounding_volume(g) ==
    LET bbox == Geometry_get_bounding_box(g)
        c == [a \in 1..3 |-> bbox.min_corner[a] + bbox.max_corner[a]]
        hl == [a \in 1..3 |-> bbox.max_corner[a] - bbox.min_corner[a]]
    IN  [box |-> <<c[1], c[2], c[3], hl[1], 0, 0, 0, hl[2], 0, 0, 0, hl[3]>>,
         den |-> 2]

\* A test that finds no geometry empty
is_empty_never(g) == FALSE

\* Geometry.is_empty
is_empty(g) == Len(g.f) = 0

----------------------------------------------------------------------------
(* obj_geometry.py: the OBJ reader and writer *)

(* A text is a sequence of lines.  A line is its command word and its       *)
(* arguments: nums for the coordinates of v / vt / vn, toks for the three   *)
(* vertex tokens of f, name for the argument of usemtl / mtllib.  A vertex  *)
(* token is the sequence of its "/"-separated fields, a field <<>> when it  *)
(* is empty and <<n>> when it is the decimal integer n: "7" is <<<<7>>>>,   *)
(* "7/8" is <<<<7>>, <<8>>>>, "7//9" is <<<<7>>, <<>>, <<9>>>>.             *)
Line(cmd, nums, toks, name) == [cmd |-> cmd, nums |-> nums, toks |-> toks, name |-> name]

BlankLine == Line("", <<>>, <<>>, "")

\* str(n) / int(s) for one field of a vertex token
FieldOf(n) == <<n>>

\* parse_face_vertex as the code has it: a missing index is MISSING
parse_face_vertex(tok) ==
    LET idx == [k \in 1..Len(tok) |-> IF tok[k] = <<>> THEN MISSING ELSE tok[k][1]]
    IN  idx \o [k \in 1..(3 - Len(idx)) |-> MISSING]

\* dump_face_vertex
dump_face_vertex(idx) ==
    IF idx[2] = -1
    THEN IF idx[3] = -1
         THEN <<FieldOf(idx[1])>>
         ELSE <<FieldOf(idx[1]), <<>>, FieldOf(idx[3])>>
    ELSE IF idx[3] = -1
         THEN <<FieldOf(idx[1]), FieldOf(idx[2])>>
         ELSE <<FieldOf(idx[1]), FieldOf(idx[2]), FieldOf(idx[3])>>

\* MtlLib.read of the companion file a mtllib line names.  The input mesh
\* has one companion file with one material bound to one image.
MtlLib(input_path, materials, lines) ==
    [input_path |-> input_path, materials |-> materials, lines |-> lines]

NoMtlLib == MtlLib("", <<>>, <<>>)

MtlLib_read(input_path) ==
    MtlLib(input_path,
           <<[name |-> "m0", path |-> [dir |-> "", stem |-> "tex", ext |-> ".png"],
              shape |-> <<4, 4>>]>>,
           <<>>)

\* The state of the loop of Geometry.read before a line and after it.
\* f holds one face-vertex per parsed vertex token, as parse_face_vertex
\* returned it (the flat array before the reshape).
ReadStart ==
    [ok |-> TRUE, v |-> <<>>, vt |-> <<>>, vn |-> <<>>, f |-> <<>>,
     mtllib |-> NoMtlLib, usemtl |-> <<>>, f_mtl |-> <<>>]

ReadLine(st, line) ==
    IF line.cmd = "" \/ line.cmd = "#" THEN st
    ELSE IF line.cmd = "v"
    THEN IF Len(line.nums) = 3
         THEN [st EXCEPT !.v = Append(@, line.nums)] ELSE [st EXCEPT !.ok = FALSE]
    ELSE IF line.cmd = "vt"
    THEN IF Len(line.nums) = 2
         THEN [st EXCEPT !.vt = Append(@, line.nums)] ELSE [st EXCEPT !.ok = FALSE]
    ELSE IF line.cmd = "vn"
    THEN IF Len(line.nums) = 3
         THEN [st EXCEPT !.vn = Append(@, line.nums)] ELSE [st EXCEPT !.ok = FALSE]
    ELSE IF line.cmd = "f"
    THEN IF Len(line.toks) = 3 /\ \A k \in 1..3 : Len(line.toks[k]) \in 1..3
         THEN [st EXCEPT !.f = Append(@, [k \in 1..3 |-> parse_face_vertex(line.toks[k])]),
                         !.f_mtl = Append(@, Len(st.usemtl) - 1)]
         ELSE [st EXCEPT !.ok = FALSE]
    ELSE IF line.cmd = "mtllib"
    THEN [st EXCEPT !.mtllib = MtlLib_read(line.name)]
    ELSE IF line.cmd = "usemtl"
    THEN [st EXCEPT !.usemtl = Append(@, line.name)]
    ELSE st

\* The loop over the lines from line i on
RECURSIVE ReadLines(_, _, _)
ReadLines(st, text, i) ==
    IF i > Len(text) \/ ~st.ok THEN st
    ELSE The({ReadLines(next, text, i + 1) : next \in {ReadLine(st, text[i])}})

\* A reader that leaves the indices 1-based
to_zero_based_skipped(f) == f

\* f = f - 1: from 1-based to 0-based, applied to every entry of the tensor
to_zero_based(f) == [i \in 1..Len(f) |-> [k \in 1..3 |-> [a \in 1..3 |-> f[i][k][a] - 1]]]

\* Geometry.read: [ok |-> FALSE] stands for the AssertionError of a line with
\* the wrong number of arguments
Geometry_read(text) ==
    LET st == ReadLines(ReadStart, text, 1)
    IN  [ok |-> st.ok,
         geom |-> Geometry(st.v, st.vt, st.vn, to_zero_based(st.f), st.mtllib,
                           st.usemtl, st.f_mtl)]

\* out_f = self.f + 1
to_one_based(f) == [i \in 1..Len(f) |-> [k \in 1..3 |-> [a \in 1..3 |-> f[i][k][a] + 1]]]

\* The face lines of Geometry.write from face i on: a blank line and a
\* usemtl line where f_mtl differs from the last face's, then the f line.
\* last is <<>> for None and <<m>> after a face of material index m.
\* self.usemtl[f_mtl] raises IndexError when f_mtl is out of range: the
\* lines written up to there stay, ok is FALSE.
RECURSIVE WriteFaces(_, _, _, _)
WriteFaces(g, out_f, i, last) ==
    IF i > Len(out_f) THEN [ok |-> TRUE, text |-> <<>>]
    ELSE LET m == g.f_mtl[i]
             change == last # <<m>>
             face_line == Line("f", <<>>, [k \in 1..3 |-> dump_face_vertex(out_f[i][k])], "")
         IN  IF change /\ ~IndexOk(m, Len(g.usemtl))
             THEN [ok |-> FALSE, text |-> <<BlankLine>>]
             ELSE LET rest == WriteFaces(g, out_f, i + 1, <<m>>)
                      head == IF change
                              THEN <<BlankLine, Line("usemtl", <<>>, <<>>, Row(g.usemtl, m))>>
                              ELSE <<>>
                  IN  [ok |-> rest.ok, text |-> head \o <<face_line>> \o rest.text]

\* Geometry.write(output_path): the text of the OBJ file.  The mtllib line
\* names the companion file written beside output_path, under its stem.
Geometry_write(g, output_stem) ==
    LET faces == WriteFaces(g, to_one_based(g.f), 1, <<>>)
    IN  [ok |-> faces.ok,
         text |-> (IF g.mtllib # NoMtlLib
                   THEN <<Line("mtllib", <<>>, <<>>, output_stem)>> ELSE <<>>)
                  \o [i \in 1..Len(g.v) |-> Line("v", g.v[i], <<>>, "")]
                  \o [i \in 1..Len(g.vt) |-> Line("vt", g.vt[i], <<>>, "")]
                  \o [i \in 1..Len(g.vn) |-> Line("vn", g.vn[i], <<>>, "")]
                  \o faces.text]

----------------------------------------------------------------------------
(* The inputs of a driver run. *)

\* The positions the vertices of an input mesh are taken from.
VertexPool == << <<0, 0, 0>>, <<4, 0, 0>>, <<0, 4, 0>>, <<2, 0, 1>> >>

\* The triangles over the first n vertices, 1-based as an OBJ file names them.
Triangles(n) == {t \in (1..n) \X (1..n) \X (1..n) : t[1] < t[2] /\ t[2] < t[3]}

\* Triangles in the order of their vertex triples
TriangleLess(s, t) ==
    \/ s[1] < t[1]
    \/ s[1] = t[1] /\ s[2] < t[2]
    \/ s[1] = t[1] /\ s[2] = t[2] /\ s[3] < t[3]

\* Face lists of at most MaxFaces triangles over the first n vertices, each
\* set of triangles listed once, in ascending order.
FaceLists(n) ==
    UNION {{fl \in [1..m -> Triangles(n)] :
               \A i \in 1..(m - 1) : TriangleLess(fl[i], fl[i + 1])} : m \in 1..MaxFaces}

\* The vertex token of vertex i in a file of the given form.
VertexToken(i, form) ==
    IF form = "v/vt/vn" THEN <<FieldOf(i), FieldOf(i), FieldOf(i)>>
    ELSE IF form = "v/vt" THEN <<FieldOf(i), FieldOf(i)>>
    ELSE IF form = "v//vn" THEN <<FieldOf(i), <<>>, FieldOf(i)>>
    ELSE <<FieldOf(i)>>

\* An OBJ file: the first n pool vertices, a texture coordinate per vertex
\* when with_vt and a normal per vertex when with_vn, one material, and the
\* faces, face i with vertex tokens of the form forms[i].
ObjFileArrays(n, faces, forms, with_vt, with_vn) ==
    <<Line("mtllib", <<>>, <<>>, "in")>>
    \o [i \in 1..n |-> Line("v", VertexPool[i], <<>>, "")]
    \o (IF with_vt
        THEN [i \in 1..n |-> Line("vt", <<VertexPool[i][1], VertexPool[i][2]>>, <<>>, "")]
        ELSE <<>>)
    \o (IF with_vn
        THEN [i \in 1..n |-> Line("vn", <<0, i, 1>>, <<>>, "")]
        ELSE <<>>)
    \o <<Line("usemtl", <<>>, <<>>, "m0")>>
    \o [i \in 1..Len(faces) |->
           Line("f", <<>>, [k \in 1..3 |-> VertexToken(faces[i][k], forms[i])], "")]

\* An OBJ file of one token form that has exactly the arrays the form uses.
ObjFile(n, faces, form) ==
    ObjFileArrays(n, faces, [i \in 1..Len(faces) |-> form],
                  form \in {"v/vt/vn", "v/vt"}, form \in {"v/vt/vn", "v//vn"})

InputObjs ==
    UNION {{ObjFile(n, faces, form) : faces \in FaceLists(n), form \in {"v/vt/vn", "v/vt"}} :
              n \in 3..Len(VertexPool)}

\* --image_size values, and the sizes <<width, height>> of the atlas image the
\* external repacker may write for a tile.
ImageSizes == {2, 4}

AtlasSizes == {<<2, 2>>, <<4, 8>>}

\* Values of get_median_texel_size (a rational <<n, d>>): the median is not
\* computed here, each run takes one of these.
TexelSizes == {<<1, 1>>, <<60, 1>>}

\* Exit statuses of an external tool.
ExitCodes == {0, 1}

----------------------------------------------------------------------------
(* The file system under out_dir. *)

\* out_dir/<area>/<tile path><name> (tile # <<>>) or out_dir/<area>/<name>;
\* name is the pieces the code builds the file name from.
Path(area, tile, name) == [area |-> area, tile |-> tile, name |-> name]

OutDir == Path("", <<>>, <<>>)

Content(kind, data) == [kind |-> kind, data |-> data]

\* A test that finds no path
os_path_exists_never(f, path) == FALSE

os_path_exists(f, path) == path \in DOMAIN f

\* open(path, "w") / cv2.imwrite / an external tool writing path; the
\* directories down to it are made first (os.makedirs)
WriteFile(f, path, content) ==
    [x \in DOMAIN f \cup {OutDir, path} |->
        IF x = path THEN content
        ELSE IF x \in DOMAIN f THEN f[x] ELSE Content("dir", <<>>)]

RECURSIVE WriteFiles(_, _, _)
WriteFiles(f, paths, content) ==
    IF paths = <<>> THEN f
    ELSE The({WriteFiles(f1, Tail(paths), content) : f1 \in {WriteFile(f, Head(paths), content)}})

\* os.rename(src, dst)
RenameFile(f, src, dst) ==
    [x \in (DOMAIN f \ {src}) \cup {dst} |-> IF x = dst THEN f[src] ELSE f[x]]

\* rel_path_from_file(abs_path, file_path): abs_path as seen from the
\* directory of file_path; area is "" when both are in the same area
rel_path_from_file(abs_path, file_path) ==
    [area |-> IF abs_path.area = file_path.area THEN "" ELSE abs_path.area,
     tile |-> abs_path.tile, name |-> abs_path.name]

\* What a relative path written into the file at file_path names
abs_path_from_file(rel_path, file_path) ==
    Path(IF rel_path.area = "" THEN file_path.area ELSE rel_path.area,
         rel_path.tile, rel_path.name)

\* TileGenerator.get_*_path
get_crop_tile_path(tile, ext) == Path("build", get_path(tile), <<"_crop", ext>>)

get_repack_tile_path(tile, ext) == Path("build", get_path(tile), <<"_repack", ext>>)

get_downsample_tile_path(tile, ext) == Path("build", get_path(tile), <<"_downsample", ext>>)

get_output_tile_path(tile, ext) == Path("build", get_path(tile), <<ext>>)

get_tileset_path == Path("build", <<>>, <<"tileset", ".json">>)

\* An install path that drops the directories of the tile
install_path_flat(build_path) == Path("tiles", <<>>, build_path.name)

\* TileGenerator.install_file: the path under tiles/ a build path is copied to
install_path(build_path) == Path("tiles", build_path.tile, build_path.name)

install_file(f, build_path) == WriteFile(f, install_path(build_path), f[build_path])

\* dosys with exc_on_error=False
dosys_never_raises(ret) == FALSE

\* dosys(cmd): TRUE when it raises RuntimeError for the exit status ret
dosys_raises(ret) == ret # 0

----------------------------------------------------------------------------
(* tiler.py and tile_generator.py: pure parts *)

NoGeom == Geometry(<<>>, <<>>, <<>>, <<>>, NoMtlLib, <<>>, <<>>)

NoTileSystem == TileSystem(<<0, 0, 0>>, 0, 1)

\* A configuration with no margin: origin = centroid - 0.5 * box_dims,
\* scale = max_dim
get_auto_config_no_margin(g) ==
    LET bbox == Geometry_get_bounding_box(g)
        box_dims == [a \in 1..3 |-> bbox.max_corner[a] - bbox.min_corner[a]]
        max_dim == SetMax({box_dims[a] : a \in 1..3})
    IN  [origin |-> [a \in 1..3 |->
                        10 * (bbox.min_corner[a] + bbox.max_corner[a]) - 10 * box_dims[a]],
         scale |-> 20 * max_dim,
         den |-> 20,
         min_zoom |-> 0]

\* get_auto_config: origin = centroid - 0.5 * 1.1 * box_dims, scale =
\* 1.1 * max_dim, min_zoom = 0; origin and scale in units of 1 / 20
get_auto_config(g) ==
    LET bbox == Geometry_get_bounding_box(g)
        box_dims == [a \in 1..3 |-> bbox.max_corner[a] - bbox.min_corner[a]]
        max_dim == SetMax({box_dims[a] : a \in 1..3})
    IN  [origin |-> [a \in 1..3 |->
                        10 * (bbox.min_corner[a] + bbox.max_corner[a]) - 11 * box_dims[a]],
         scale |-> 22 * max_dim,
         den |-> 20,
         min_zoom |-> 0]

\* generate_top_tiles: the tiles of the three nested range() loops, in order
top_tiles(ts, zoom, g) ==
    LET bbox == Geometry_get_bounding_box(g)
        min_idx == get_index_vec_for_pt(ts, bbox.min_corner, zoom)
        max_pt == get_index_vec_for_pt(ts, bbox.max_corner, zoom)
        max_idx == [a \in 1..3 |-> max_pt[a] + 1]
        cnt == [a \in 1..3 |-> Max2(0, max_idx[a] - min_idx[a])]
    IN  [k \in 1..(cnt[1] * cnt[2] * cnt[3]) |->
            Tile(zoom,
                 min_idx[1] + ((k - 1) \div (cnt[2] * cnt[3])),
                 min_idx[2] + (((k - 1) \div cnt[3]) % cnt[2]),
                 min_idx[3] + ((k - 1) % cnt[3]))]

\* A generate_tile without the force-full-res branch
force_full_res_never(root, parent_geom, g) == FALSE

\* generate_tile: force_full_res = not root and len(parent_geom.f) == len(geom.f)
force_full_res(root, parent_geom, g) == ~root /\ Len(parent_geom.f) = Len(g.f)

RatMin(a, b) == IF RatLeq(a, b) THEN a ELSE b

\* resize_to: the scale factor it returns for an image of size in_dim =
\* <<in_w, in_h>>, out_dim = <<out_w, out_h>> and a scale_factor_limit
resize_to(out_dim, in_dim, scale_factor_limit) ==
    RatMin(scale_factor_limit,
           RatMin(<<out_dim[1], in_dim[1]>>, <<out_dim[2], in_dim[2]>>))

\* downsample_texture: the scale factor it returns, scale_factor * UPSAMPLE_FACTOR
downsample_texture_scale(target_texels_per_tile, atlas, full_res) ==
    LET scale_factor ==
            IF full_res THEN <<1, UPSAMPLE_FACTOR>>
            ELSE resize_to(<<target_texels_per_tile, target_texels_per_tile>>, atlas,
                           <<1, UPSAMPLE_FACTOR>>)
    IN  <<scale_factor[1] * UPSAMPLE_FACTOR, scale_factor[2]>>

\* A max_error that ignores the scale factor of the tile
max_error_without_scale(texel_size, scale_factor) == texel_size

\* max_error = self.input_texel_size / scale_factor
max_error(texel_size, scale_factor) ==
    <<texel_size[1] * scale_factor[2], texel_size[2] * scale_factor[1]>>

\* A leaf test that also takes a scale factor of exactly 0.999 for a leaf
is_leaf_at_least(scale_factor) == scale_factor[1] * 1000 >= 999 * scale_factor[2]

\* scale_factor > 0.999
is_leaf(scale_factor) == scale_factor[1] * 1000 > 999 * scale_factor[2]

\* The meta dict of generate_tile, before and after meta["children"] is set
TileMeta(bounding_volume, uri, geometric_error) ==
    [boundingVolume |-> bounding_volume, content |-> [uri |-> uri],
     geometricError |-> geometric_error]

WithChildren(m, children) ==
    [boundingVolume |-> m.boundingVolume, content |-> m.content,
     geometricError |-> m.geometricError, children |-> children]

\* The meta dict of generate()
TilesetMeta(g, children) ==
    [asset |-> [version |-> "1.0"],
     geometricError |-> <<BIG_GEOMETRIC_ERROR, 1>>,
     root |-> [boundingVolume |-> get_bounding_volume(g),
               geometricError |-> <<BIG_GEOMETRIC_ERROR, 1>>,
               refine |-> "REPLACE",
               children |-> children]]

\* upsample_texture: the files it writes and the up_texture_map it fills,
\* material after material.  The output name is "up_" + the base name of
\* the image with its extension replaced by ".png".
up_image_path(img) == Path("build", <<>>, <<"up_", img.stem, ".png">>)

RECURSIVE upsample_texture(_, _, _)
upsample_texture(materials, f, map) ==
    IF materials = <<>> THEN [fs |-> f, up_texture_map |-> map]
    ELSE LET img == Head(materials).path
         IN  upsample_texture(
                 Tail(materials),
                 WriteFile(f, up_image_path(img), Content("image", <<>>)),
                 [x \in DOMAIN map \cup {img} |->
                     IF x = img THEN up_image_path(img).name ELSE map[x]])

\* A frame of the call stack.  fn is the function, pc the statement it is at;
\* todo / next / out are the loop over the tiles it calls generate_tile on
\* and the metadata those calls returned.
Frame(fn, pc, parent_geom, tile, root, parent_max_error, todo) ==
    [fn |-> fn, pc |-> pc, parent_geom |-> parent_geom, tile |-> tile, root |-> root,
     parent_max_error |-> parent_max_error, geom |-> NoGeom, atlas |-> <<0, 0>>,
     scale_factor |-> <<0, 1>>, meta |-> <<>>, todo |-> todo, next |-> 1, out |-> <<>>]

Top == stack[Len(stack)]

ReplaceTop(fr) == SubSeq(stack, 1, Len(stack) - 1) \o <<fr>>

\* A return that hands nothing to the caller: the loop goes on to its next
\* tile with its list as it was
Return_without_result(result) ==
    LET n == Len(stack)
    IN  SubSeq(stack, 1, n - 2) \o <<[stack[n - 1] EXCEPT !.next = @ + 1]>>

\* return result (<<>> for None, <<meta>> otherwise) from the top frame to
\* the loop of its caller
Return(result) ==
    LET n == Len(stack)
    IN  SubSeq(stack, 1, n - 2)
        \o <<[stack[n - 1] EXCEPT !.out = @ \o result, !.next = @ + 1]>>

AtTile(pc) == phase = "generating" /\ stack # <<>> /\ Top.fn = "generate_tile" /\ Top.pc = pc

----------------------------------------------------------------------------
(* The driver run: tiler.py main() / tiler() and TileGenerator.generate(). *)

\* The out_dir a run may find: absent, an empty directory, or the output of
\* an earlier run.
InitialFs(out_dir) ==
    IF out_dir = "absent" THEN <<>>
    ELSE IF out_dir = "empty" THEN WriteFile(<<>>, OutDir, Content("dir", <<>>))
    ELSE WriteFile(<<>>, install_path(get_tileset_path), Content("old", <<>>))

InitGen ==
    /\ args \in [in_obj : InputObjs, out_dir : {"absent", "empty", "old"},
                 image_size : ImageSizes, debug_glb : BOOLEAN]
    /\ fs = InitialFs(args.out_dir)
    /\ phase = "start"
    /\ exit_status = -1
    /\ error = "none"
    /\ geom = NoGeom
    /\ tile_system = NoTileSystem
    /\ min_zoom = 0
    /\ input_texel_size = <<0, 1>>
    /\ up_texture_map = <<>>
    /\ stack = <<>>
    /\ meta = <<>>
    /\ tool_failed = FALSE
    /\ log = <<>>

\* The generator and the driver are not running.
GenOff ==
    /\ args = <<>>
    /\ fs = <<>>
    /\ phase = "off"
    /\ exit_status = -1
    /\ error = "none"
    /\ geom = NoGeom
    /\ tile_system = NoTileSystem
    /\ min_zoom = 0
    /\ input_texel_size = <<0, 1>>
    /\ up_texture_map = <<>>
    /\ stack = <<>>
    /\ meta = <<>>
    /\ tool_failed = FALSE
    /\ log = <<>>

UnitIdle == tsys = <<>> /\ rd = <<>> /\ mtl = <<>> /\ gen = <<>> /\ leaf = <<>> /\ top = <<>> /\ texels = <<>>

Idle == crop = <<>> /\ obj = <<>> /\ UnitIdle

\* An exception leaves generate_tile, generate(), tiler() and main(): the
\* interpreter prints the traceback and exits with status 1.  ret is the
\* exit status of the external tool the statement ran, 0 when it ran none.
RaiseLogged(err, f, ret, lg) ==
    /\ tool_failed' = (tool_failed \/ ret # 0)
    /\ phase' = "failed"
    /\ error' = err
    /\ exit_status' = 1
    /\ stack' = <<>>
    /\ fs' = f
    /\ log' = lg
    /\ UNCHANGED <<args, geom, tile_system, min_zoom, input_texel_size, up_texture_map,
                   meta, crop, obj, unitVars>>

Raise(err, f, ret) == RaiseLogged(err, f, ret, log)

\* A statement of generate_tile that ends normally; lg is the log after it
GotoLogged(stk, f, ret, lg) ==
    /\ tool_failed' = (tool_failed \/ ret # 0)
    /\ stack' = stk
    /\ fs' = f
    /\ log' = lg
    /\ UNCHANGED <<args, phase, exit_status, error, geom, tile_system, min_zoom,
                   input_texel_size, up_texture_map, meta, crop, obj, unitVars>>

Goto(stk, f, ret) == GotoLogged(stk, f, ret, log)

\* main() and tiler() up to the call of generator.generate(geom)
tiler ==
    /\ phase = "start"
    /\ IF os_path_exists(fs, OutDir)
       THEN \* logging.warning(...); return: main() returns, exit status 0
            /\ phase' = "refused"
            /\ exit_status' = 0
            /\ UNCHANGED <<args, log, fs, error, geom, tile_system, min_zoom, input_texel_size,
                           up_texture_map, stack, meta, tool_failed, crop, obj, unitVars>>
       ELSE \E r \in {Geometry_read(args.in_obj)} :
                IF ~r.ok
                THEN Raise("AssertionError", fs, 0)
                ELSE \E config \in {get_auto_config(r.geom)} :
                         /\ geom' = r.geom
                         /\ tile_system' = TileSystem(config.origin, config.scale, config.den)
                         /\ min_zoom' = config.min_zoom
                         /\ phase' = "constructed"
                         /\ UNCHANGED <<args, log, fs, exit_status, error, input_texel_size,
                                        up_texture_map, stack, meta, tool_failed, crop, obj, unitVars>>

\* generate() up to the call of generate_top_tiles
generate ==
    /\ phase = "constructed"
    /\ \E texel \in TexelSizes,
          up \in {upsample_texture(geom.mtllib.materials, fs, up_texture_map)} :
          LET fs1 == IF args.debug_glb
                     THEN WriteFile(up.fs, Path("build", <<>>, <<"leaf_tiles", ".txt">>),
                                    Content("text", <<>>))
                     ELSE up.fs
          IN  /\ input_texel_size' = texel
              /\ up_texture_map' = up.up_texture_map
              /\ fs' = fs1
              /\ stack' = <<Frame("generate_top_tiles", "loop", geom, Tile(0, 0, 0, 0), TRUE,
                                  <<BIG_GEOMETRIC_ERROR, 1>>,
                                  top_tiles(tile_system, min_zoom, geom))>>
              /\ phase' = "generating"
              /\ UNCHANGED <<args, log, exit_status, error, geom, tile_system, min_zoom, meta,
                             tool_failed, crop, obj, unitVars>>

\* The loop of generate_top_tiles: call generate_tile for the next top tile,
\* or return the list to generate(), which sets meta["root"]["children"]
generate_top_tiles ==
    /\ phase = "generating" /\ stack # <<>> /\ Top.fn = "generate_top_tiles"
    /\ IF Top.next <= Len(Top.todo)
       THEN /\ Top.todo[Top.next].zoom <= MaxZoom
            /\ Goto(stack \o <<Frame("generate_tile", "crop", geom, Top.todo[Top.next], TRUE,
                                     <<BIG_GEOMETRIC_ERROR, 1>>, <<>>)>>, fs, 0)
       ELSE /\ meta' = <<TilesetMeta(geom, Top.out)>>
            /\ stack' = <<>>
            /\ phase' = "writing"
            /\ UNCHANGED <<args, log, fs, exit_status, error, geom, tile_system, min_zoom,
                           input_texel_size, up_texture_map, tool_failed, crop, obj, unitVars>>

\* generate_tile: logging.info("generate_tile %s", tile);
\* geom = parent_geom.get_cropped(...); if geom.is_empty(): return None
generate_tile_crop ==
    /\ AtTile("crop")
    /\ \E bbox \in {TileSystem_get_bounding_box(tile_system, Top.tile)} :
          \E ord \in {"first", "last"} :
              \E c \in {get_cropped(Top.parent_geom, bbox, ord)} :
                  \E lg \in {Append(log, Top.tile)} :
                      IF ~c.ok THEN RaiseLogged("IndexError", fs, 0, lg)
                      ELSE IF is_empty(c.geom) THEN GotoLogged(Return(<<>>), fs, 0, lg)
                      ELSE GotoLogged(ReplaceTop([Top EXCEPT !.geom = c.geom,
                                                             !.pc = "write_cropped_tile"]),
                                      fs, 0, lg)

\* write_cropped_tile: the rotated geometry written as <tile>_crop.obj / .mtl
write_cropped_tile ==
    /\ AtTile("write_cropped_tile")
    /\ \E w \in {Geometry_write(Top.geom, "crop")},
          fs1 \in {WriteFiles(fs, <<get_crop_tile_path(Top.tile, ".mtl"),
                                    get_crop_tile_path(Top.tile, ".obj")>>,
                              Content("text", <<>>))} :
          IF ~w.ok THEN Raise("IndexError", fs1, 0)
          ELSE Goto(ReplaceTop([Top EXCEPT !.pc = "repack_texture"]), fs1, 0)

\* repack_texture: the external repacker, which writes <tile>_repack.obj,
\* .mtl and the atlas .png
repack_texture ==
    /\ AtTile("repack_texture")
    /\ \E ret \in ExitCodes, atlas \in AtlasSizes :
          IF dosys_raises(ret) THEN Raise("RuntimeError", fs, ret)
          ELSE Goto(ReplaceTop([Top EXCEPT !.atlas = atlas, !.pc = "downsample_texture"]),
                    WriteFiles(fs, <<get_repack_tile_path(Top.tile, ".obj"),
                                     get_repack_tile_path(Top.tile, ".mtl"),
                                     get_repack_tile_path(Top.tile, ".png")>>,
                               Content("repacked", <<>>)), ret)

\* force_full_res = ...; scale_factor = self.downsample_texture(tile, force_full_res)
downsample_texture ==
    /\ AtTile("downsample_texture")
    /\ LET full_res == force_full_res(Top.root, Top.parent_geom, Top.geom)
           scale_factor == downsample_texture_scale(args.image_size, Top.atlas, full_res)
       IN  Goto(ReplaceTop([Top EXCEPT !.scale_factor = scale_factor,
                                       !.pc = "convert_to_b3dm"]),
                WriteFiles(fs, <<get_downsample_tile_path(Top.tile, ".jpg"),
                                 get_downsample_tile_path(Top.tile, ".mtl"),
                                 get_downsample_tile_path(Top.tile, ".obj")>>,
                           Content("downsampled", <<>>)), 0)

\* convert_to_b3dm: obj23dtiles writes <tile>_downsample.b3dm, which is
\* renamed to <tile>.b3dm and installed under tiles/
convert_to_b3dm ==
    /\ AtTile("convert_to_b3dm")
    /\ \E ret \in ExitCodes :
          IF dosys_raises(ret) THEN Raise("RuntimeError", fs, ret)
          ELSE \E fs1 \in {WriteFile(fs, get_downsample_tile_path(Top.tile, ".b3dm"),
                                      Content("b3dm", <<>>))} :
                   \E fs2 \in {RenameFile(fs1, get_downsample_tile_path(Top.tile, ".b3dm"),
                                          get_output_tile_path(Top.tile, ".b3dm"))} :
                       \E fs3 \in {install_file(fs2, get_output_tile_path(Top.tile, ".b3dm"))} :
                           Goto(ReplaceTop([Top EXCEPT !.pc = IF args.debug_glb
                                                              THEN "convert_to_glb"
                                                              ELSE "meta"]), fs3, ret)

\* convert_to_glb (debug_glb only): the unrotated geometry written as
\* <tile>_downsample_unrot.obj / .mtl, converted and renamed to <tile>.glb
convert_to_glb ==
    /\ AtTile("convert_to_glb")
    /\ \E ret \in ExitCodes :
          LET unrot(ext) == Path("build", get_path(Top.tile), <<"_downsample", "_unrot", ext>>)
          IN  \E fs1 \in {WriteFiles(fs, <<unrot(".mtl"), unrot(".obj")>>,
                                     Content("text", <<>>))} :
                  IF dosys_raises(ret) THEN Raise("RuntimeError", fs1, ret)
                  ELSE \E fs2 \in {WriteFile(fs1, unrot(".glb"), Content("glb", <<>>))} :
                           Goto(ReplaceTop([Top EXCEPT !.pc = "meta"]),
                                RenameFile(fs2, unrot(".glb"),
                                           get_output_tile_path(Top.tile, ".glb")), ret)

\* The meta dict, max_error and the leaf test
assemble_meta ==
    /\ AtTile("meta")
    /\ LET rel_tile_b3dm == rel_path_from_file(get_output_tile_path(Top.tile, ".b3dm"),
                                               get_tileset_path)
           m == TileMeta(get_bounding_volume(Top.geom), rel_tile_b3dm, Top.parent_max_error)
       IN  IF is_leaf(Top.scale_factor)
           THEN Goto(Return(<<m>>), fs, 0)
           ELSE Goto(ReplaceTop([Top EXCEPT !.meta = <<m>>, !.pc = "children",
                                            !.todo = get_children(Top.tile)]), fs, 0)

\* for child in get_children(tile): child_meta = self.generate_tile(geom,
\* child, False, max_error) ...; return meta
expand_children ==
    /\ AtTile("children")
    /\ IF Top.next <= Len(Top.todo)
       THEN /\ Top.todo[Top.next].zoom <= MaxZoom
            /\ Goto(stack \o <<Frame("generate_tile", "crop", Top.geom, Top.todo[Top.next],
                                     FALSE, max_error(input_texel_size, Top.scale_factor),
                                     <<>>)>>, fs, 0)
       ELSE Goto(Return(<<WithChildren(Top.meta[1], Top.out)>>), fs, 0)

\* write_tileset: json.dump(meta) into build/tileset.json
write_tileset ==
    /\ phase = "writing"
    /\ fs' = WriteFile(fs, get_tileset_path, Content("tileset", meta))
    /\ phase' = "installing"
    /\ UNCHANGED <<args, log, exit_status, error, geom, tile_system, min_zoom, input_texel_size,
                   up_texture_map, stack, meta, tool_failed, crop, obj, unitVars>>

\* install_file(tileset_path), the debug viewers, and the return to main()
install_tileset ==
    /\ phase = "installing"
    /\ \E debug_tileset \in BOOLEAN :
          LET viewer(base) == <<Path("build", <<>>, <<base, ".html">>),
                                Path("build", <<>>, <<base, ".js">>)>>
          IN  \E fs1 \in {install_file(fs, get_tileset_path)} :
                  \E fs2 \in {IF args.debug_glb
                               THEN WriteFiles(fs1, viewer("debug_glb_viewer"),
                                               Content("text", <<>>))
                               ELSE fs1} :
                      fs' = IF debug_tileset
                            THEN WriteFiles(fs2, viewer("debug_tileset_viewer"),
                                            Content("text", <<>>))
                            ELSE fs2
    /\ phase' = "done"
    /\ exit_status' = 0
    /\ UNCHANGED <<args, log, error, geom, tile_system, min_zoom, input_texel_size,
                   up_texture_map, stack, meta, tool_failed, crop, obj, unitVars>>

NextGen ==
    \/ tiler
    \/ generate
    \/ generate_top_tiles
    \/ generate_tile_crop
    \/ write_cropped_tile
    \/ repack_texture
    \/ downsample_texture
    \/ convert_to_b3dm
    \/ convert_to_glb
    \/ assemble_meta
    \/ expand_children
    \/ write_tileset
    \/ install_tileset

Init == InitGen /\ Idle

Next == NextGen

Spec == Init /\ [][Next]_vars

----------------------------------------------------------------------------
(* Properties of the driver run (Spec, FairSpec). *)

\* A run goes on as long as a statement is left to run.
FairSpec == Spec /\ WF_vars(Next)

\* The generate_tile frames that are in the loop over the children
ExpandingFrames ==
    {i \in 1..Len(stack) : stack[i].fn = "generate_tile" /\ stack[i].pc = "children"}

\* The children of fr.tile whose crop of fr.geom keeps face i
KeepingChildren(fr, i) ==
    {c \in 1..8 : i \in keep_faces(fr.geom,
                       TileSystem_get_bounding_box(tile_system, get_children(fr.tile)[c]))}

\* C1: for every non-leaf tile generate_tile processes, each face of the
\* tile's cropped geometry is kept by the crop to exactly one of the eight
\* boxes of get_children(tile): the children's face sets are pairwise
\* disjoint and their union is the tile's face set.
C1_CropPartition ==
    \A n \in ExpandingFrames :
        \A i \in 1..Len(stack[n].geom.f) : Cardinality(KeepingChildren(stack[n], i)) = 1

\* A non-leaf tile with two faces whose children have all been generated,
\* the two faces in two different children.
C1_Witness ==
    /\ AtTile("children")
    /\ Top.next > Len(Top.todo)
    /\ Len(Top.geom.f) = 2
    /\ KeepingChildren(Top, 1) # KeepingChildren(Top, 2)
    /\ Len(Top.out) = 2

\* The tile nodes of a list of tile metadata and of their children lists,
\* parents first.
RECURSIVE NodesOf(_)
NodesOf(list) ==
    IF Len(list) = 0 THEN <<>>
    ELSE LET m == Head(list)
         IN  <<m>> \o (IF "children" \in DOMAIN m THEN NodesOf(m.children) ELSE <<>>)
             \o NodesOf(Tail(list))

\* The tileset.json installed under tiles/ by this run
InstalledTileset == install_path(get_tileset_path)

ManifestInstalled ==
    InstalledTileset \in DOMAIN fs /\ fs[InstalledTileset].kind = "tileset"

\* C4: in the manifest generate() writes, every content.uri, resolved
\* relative to the installed tileset.json, names a file that exists under
\* tiles/ when the manifest is installed.
C4_ContentUriResolves ==
    ManifestInstalled =>
        LET nodes == NodesOf(fs[InstalledTileset].data[1].root.children)
        IN  \A i \in 1..Len(nodes) :
                LET target == abs_path_from_file(nodes[i].content.uri, InstalledTileset)
                IN  target.area = "tiles" /\ os_path_exists(fs, target)

\* A manifest with tiles at three zoom levels is installed.
C4_Witness ==
    /\ phase = "done"
    /\ ManifestInstalled
    /\ \E i \in 1..Len(NodesOf(meta[1].root.children)) :
           NodesOf(meta[1].root.children)[i].content.uri.tile[1] = 2

\* C5: in the emitted manifest tree, root included, the geometricError of
\* every node that has children is greater than or equal to the
\* geometricError of each of its children.
C5_GeometricErrorMonotone ==
    meta # <<>> =>
        LET root == meta[1].root
            nodes == <<root>> \o NodesOf(root.children)
        IN  \A i \in 1..Len(nodes) :
                "children" \in DOMAIN nodes[i] =>
                    \A c \in 1..Len(nodes[i].children) :
                        RatLeq(nodes[i].children[c].geometricError, nodes[i].geometricError)

\* C6: if an external tool exits non-zero while a tile is generated, the
\* failure leaves generate_tile and generate() with no recovery, and no
\* tileset.json is written under build/ or installed under tiles/.
C6_ToolFailureNoManifest ==
    tool_failed =>
        /\ phase = "failed"
        /\ error = "RuntimeError"
        /\ exit_status # 0
        /\ stack = <<>>
        /\ meta = <<>>
        /\ ~os_path_exists(fs, get_tileset_path)
        /\ ~os_path_exists(fs, InstalledTileset)

\* A tool failed in a tile below the top tile, after tiles were installed.
C6_Witness ==
    /\ tool_failed
    /\ phase = "failed"
    /\ \E p \in DOMAIN fs : p.area = "tiles" /\ Len(p.tile) = 4

\* C7: if the output directory exists when the driver is run, the run does
\* no generation: the mesh is not tiled and nothing under the output
\* directory is created, modified or overwritten.
C7_ExistingOutDirUntouched ==
    args.out_dir # "absent" =>
        /\ phase \in {"start", "refused"}
        /\ fs = InitialFs(args.out_dir)
        /\ geom = NoGeom
        /\ stack = <<>>
        /\ meta = <<>>

\* The driver has returned on an output directory left by an earlier run.
C7_Witness == phase = "refused" /\ args.out_dir = "old"

\* C8: a run that refuses to overwrite an existing output directory ends
\* as a failure, the OutputExists error surfaces and the exit status is
\* non-zero; exit status zero is returned only when generation completed
\* and the manifest was written.
C8_RefusalIsFailure ==
    /\ phase = "refused" => (exit_status # 0 /\ error = "OutputExists")
    /\ exit_status = 0 => (phase = "done" /\ ManifestInstalled)

\* C9: with the tile system of get_auto_config, the whole bounding box of
\* the source mesh lies inside the box of tile (0,0,0) at zoom 0, and
\* generate_top_tiles starts the recursion for exactly that one tile.
C9_AutoConfigOneTopTile ==
    tile_system # NoTileSystem =>
        LET box == TileSystem_get_bounding_box(tile_system, Tile(0, 0, 0, 0))
            bbox == Geometry_get_bounding_box(geom)
        IN  /\ is_inside(box, bbox.min_corner, 1)
            /\ is_inside(box, bbox.max_corner, 1)
            /\ top_tiles(tile_system, min_zoom, geom) = <<Tile(0, 0, 0, 0)>>
            /\ phase = "generating" => stack[1].todo = <<Tile(0, 0, 0, 0)>>

\* generate_top_tiles has returned from its call for tile (0,0,0) at zoom 0
\* and its loop is over.
C9_Witness ==
    /\ phase = "generating"
    /\ Len(stack) = 1
    /\ stack[1].fn = "generate_top_tiles"
    /\ stack[1].next = 2
    /\ Len(stack[1].out) = 1

\* C3: generate_tile terminates: whatever the mesh, the target size and the
\* atlas sizes the repacker returns, the run makes finitely many
\* generate_tile calls and ends.
C3_GenerateTileTerminates == <>(phase \in {"done", "failed", "refused"})

\* A run has ended with tiles at three zoom levels generated by the
\* recursion.
C3_Witness ==
    /\ phase = "done"
    /\ Len(NodesOf(meta[1].root.children)) >= 3
    /\ \E i \in 1..Len(NodesOf(meta[1].root.children)) :
           "children" \in DOMAIN NodesOf(meta[1].root.children)[i]

----------------------------------------------------------------------------
(* Geometry.get_cropped on its own: a geometry read from an OBJ file is     *)
(* cropped to a box, and the crop is cropped again, as generate_tile crops  *)
(* the geometry of a tile for each of its children.                         *)

\* How many crops follow one another.
MaxCropDepth == 2

\* The boxes of a crop: x and y ranges around the pool vertices, and a box in
\* thirds whose min corner is the centroid of a pool triangle.
CropBoxes ==
    {BoundingBox(<<x[1], y[1], -1>>, <<x[2], y[2], 5>>, 1) :
        x \in {<<0, 2>>, <<2, 5>>, <<0, 5>>}, y \in {<<0, 1>>, <<1, 5>>, <<0, 5>>}}
    \cup {BoundingBox(<<2, 4, 1>>, <<6, 15, 15>>, 3)}

\* The forms of the vertex tokens of a face
TokenForms == {"v/vt/vn", "v/vt", "v//vn", "v"}

NoCrop == [ok |-> FALSE, geom |-> NoGeom]

\* A crop starts from a file read by Geometry.read: every token form for
\* every face, with the vt and vn arrays in the file or not whatever the
\* forms (an array no token names may be there, and an array a token names
\* may be missing).
InitCrop ==
    /\ \E n \in 3..Len(VertexPool), with_vt \in BOOLEAN, with_vn \in BOOLEAN,
          bbox \in CropBoxes, ord \in {"first", "last"} :
           \E faces \in FaceLists(n) :
               \E forms \in [1..Len(faces) -> TokenForms] :
                   crop = [pc |-> "input",
                           g |-> Geometry_read(
                                     ObjFileArrays(n, faces, forms, with_vt, with_vn)).geom,
                           bbox |-> bbox, ord |-> ord, out |-> NoCrop, depth |-> 1]
    /\ obj = <<>>
    /\ UnitIdle
    /\ args = <<>>
    /\ fs = <<>>
    /\ phase = "off"
    /\ exit_status = -1
    /\ error = "none"
    /\ geom = NoGeom
    /\ tile_system = NoTileSystem
    /\ min_zoom = 0
    /\ input_texel_size = <<0, 1>>
    /\ up_texture_map = <<>>
    /\ stack = <<>>
    /\ meta = <<>>
    /\ tool_failed = FALSE
    /\ log = <<>>

\* geom = parent_geom.get_cropped(bbox)
crop_get_cropped ==
    /\ crop.pc = "input"
    /\ crop' = [crop EXCEPT !.pc = "cropped",
                            !.out = get_cropped(crop.g, crop.bbox, crop.ord)]
    /\ UNCHANGED <<genVars, obj, unitVars>>

\* generate_tile(child, root=False, parent_geom=geom, ...): the crop is the
\* parent geometry of the next one
crop_child ==
    /\ crop.pc = "cropped"
    /\ crop.out.ok
    /\ crop.depth < MaxCropDepth
    /\ \E bbox \in CropBoxes :
           crop' = [crop EXCEPT !.pc = "input", !.g = crop.out.geom, !.bbox = bbox,
                                !.out = NoCrop, !.depth = @ + 1]
    /\ UNCHANGED <<genVars, obj, unitVars>>

NextCrop == crop_get_cropped \/ crop_child

SpecCrop == InitCrop /\ [][NextCrop]_vars

\* The faces a crop keeps, in the order of the parent's face list
KeptFaces == SortedSeq(keep_faces(crop.g, crop.bbox))

\* Face-vertex k of kept face j names in array a (1 for v, 2 for vt, 3 for
\* vn) a row of X; in the crop it names a row of Y with the same contents.
SameRow(X, Y, j, k, a) ==
    LET r == crop.g.f[KeptFaces[j]][k][a]
        r2 == crop.out.geom.f[j][k][a]
    IN  r >= 0 => (r2 >= 0 /\ r2 < Len(Y) /\ Y[r2 + 1] = X[r + 1])

\* C2: garbage collection in get_cropped preserves references: for every
\* kept face, each of its vertices and each array of v, vt, vn the face
\* references, the row the face-vertex names in the cropped array equals
\* the row it named in the parent geometry.
C2_CropPreservesReferences ==
    (crop.pc = "cropped" /\ crop.out.ok) =>
        /\ Len(crop.out.geom.f) = Len(KeptFaces)
        /\ \A j \in 1..Len(KeptFaces) : \A k \in 1..3 :
               /\ SameRow(crop.g.v, crop.out.geom.v, j, k, 1)
               /\ SameRow(crop.g.vt, crop.out.geom.vt, j, k, 2)
               /\ SameRow(crop.g.vn, crop.out.geom.vn, j, k, 3)

\* A crop has dropped a face and rows of v, and a kept face names its
\* vertices by other indices than in the parent.
C2_Witness ==
    /\ crop.pc = "cropped" /\ crop.out.ok
    /\ Len(KeptFaces) >= 1
    /\ Len(KeptFaces) < Len(crop.g.f)
    /\ Len(crop.out.geom.v) < Len(crop.g.v)
    /\ Len(crop.out.geom.vt) >= 1
    /\ \E k \in 1..3 : crop.out.geom.f[1][k][1] # crop.g.f[KeptFaces[1]][k][1]

----------------------------------------------------------------------------
(* Geometry.write and Geometry.read on their own: a geometry is written to  *)
(* an OBJ file, the file is read back, and the result is written to the     *)
(* same path again.                                                         *)

\* How many faces a geometry to write has at most.
MaxObjFaces == 2

\* The four shapes of a face-vertex: which of vt and vn it names.  An
\* index the face-vertex does not name is held as -2 (the -1 of
\* parse_face_vertex after the f - 1 of Geometry.read).
FaceVertexForms == BOOLEAN \X BOOLEAN

FaceVertex(k, form) ==
    <<k - 1, IF form[1] THEN k - 1 ELSE -2, IF form[2] THEN k - 1 ELSE -2>>

\* One face whose three vertices each have a form of their own, or several
\* faces of one form each.
ObjFaceLists ==
    {<<[k \in 1..3 |-> FaceVertex(k, forms[k])]>> : forms \in [1..3 -> FaceVertexForms]}
    \cup UNION {{[i \in 1..m |-> [k \in 1..3 |-> FaceVertex(k, forms[i])]] :
                    forms \in [1..m -> FaceVertexForms]} : m \in 2..MaxObjFaces}

\* A geometry over the first three pool vertices, with the vt and vn arrays
\* filled or empty.
ObjGeom(f, arrays, mtllib, usemtl, f_mtl) ==
    Geometry([i \in 1..3 |-> VertexPool[i]],
             IF arrays THEN [i \in 1..3 |-> <<VertexPool[i][1], VertexPool[i][2]>>] ELSE <<>>,
             IF arrays THEN [i \in 1..3 |-> <<0, i, 1>>] ELSE <<>>,
             f, mtllib, usemtl, f_mtl)

InitObj ==
    /\ \E f \in ObjFaceLists, arrays \in BOOLEAN, mtllib \in {NoMtlLib, MtlLib_read("in")},
          usemtl \in {<<>>, <<"m0">>, <<"m0", "m1">>, <<"m0", "m0">>} :
           \E f_mtl \in [1..Len(f) -> {-1, 0, 1}] :
               obj = [pc |-> "geom", g |-> ObjGeom(f, arrays, mtllib, usemtl, f_mtl),
                      path |-> "a", text1 |-> <<>>, g2 |-> NoGeom, text2 |-> <<>>]
    /\ crop = <<>>
    /\ UnitIdle
    /\ args = <<>>
    /\ fs = <<>>
    /\ phase = "off"
    /\ exit_status = -1
    /\ error = "none"
    /\ geom = NoGeom
    /\ tile_system = NoTileSystem
    /\ min_zoom = 0
    /\ input_texel_size = <<0, 1>>
    /\ up_texture_map = <<>>
    /\ stack = <<>>
    /\ meta = <<>>
    /\ tool_failed = FALSE
    /\ log = <<>>

\* geom.write(path); an IndexError ends the run
obj_write ==
    /\ obj.pc = "geom"
    /\ LET w == Geometry_write(obj.g, obj.path)
       IN  obj' = [obj EXCEPT !.pc = IF w.ok THEN "written" ELSE "error", !.text1 = w.text]
    /\ UNCHANGED <<genVars, crop, unitVars>>

\* geom2 = Geometry.read(path)
obj_read ==
    /\ obj.pc = "written"
    /\ LET r == Geometry_read(obj.text1)
       IN  obj' = [obj EXCEPT !.pc = IF r.ok THEN "read" ELSE "error", !.g2 = r.geom]
    /\ UNCHANGED <<genVars, crop, unitVars>>

\* geom2.write(path)
obj_write_again ==
    /\ obj.pc = "read"
    /\ LET w == Geometry_write(obj.g2, obj.path)
       IN  obj' = [obj EXCEPT !.pc = IF w.ok THEN "rewritten" ELSE "error", !.text2 = w.text]
    /\ UNCHANGED <<genVars, crop, unitVars>>

NextObj == obj_write \/ obj_read \/ obj_write_again

SpecObj == InitObj /\ [][NextObj]_vars

\* C10: the text Geometry.write produces, read by Geometry.read and written
\* again by Geometry.write, is identical to the first text.
C10_WriteReadWrite == obj.pc = "rewritten" => obj.text2 = obj.text1

\* A round trip of two faces in two usemtl runs, one face with tokens of
\* the form i//k.
C10_Witness ==
    /\ obj.pc = "rewritten"
    /\ Len(obj.g.f) = 2
    /\ obj.g.f_mtl = <<1, 0>>
    /\ \E i \in 1..Len(obj.text1) :
           /\ obj.text1[i].cmd = "f"
           /\ Len(obj.text1[i].toks[1]) = 3
           /\ obj.text1[i].toks[1][2] = <<>>

----------------------------------------------------------------------------
(* The tile system alone: the box of a tile, the tile index of a point and *)
(* the children of a tile, for tiles on both sides of the tile origin and  *)
(* points on a grid that holds the faces of the boxes.                     *)

\* Tile indices run over -MaxIndex .. MaxIndex - 1 on the x axis.
MaxIndex == 1

\* Deepest zoom level of a tile of the harness.
MaxTileZoom == 1

\* The points of the harness: coords / den on every axis
PtGrid == [den |-> 4, coords |-> -4..4]

\* Tile systems with the origin on and off the grid origin, in units of 1/2:
\* tiles of width 1 and 3/2 at zoom 0
TileSystems ==
    {TileSystem(o, s, 2) : o \in {<<0, 0, 0>>, <<1, -2, 0>>}, s \in {2, 3}}

NoBox == BoundingBox(<<0, 0, 0>>, <<0, 0, 0>>, 1)

InitTile ==
    /\ \E ts \in TileSystems, zoom \in 0..MaxTileZoom,
          xi \in -MaxIndex..(MaxIndex - 1), yi \in -1..0, zi \in -1..0,
          x \in PtGrid.coords, y \in PtGrid.coords, z \in PtGrid.coords :
           tsys = [pc |-> "input", ts |-> ts, tile |-> Tile(zoom, xi, yi, zi),
                   pt |-> <<x, y, z>>, bbox |-> NoBox, idx |-> <<>>,
                   children |-> <<>>]
    /\ crop = <<>>
    /\ obj = <<>>
    /\ rd = <<>>
    /\ mtl = <<>>
    /\ gen = <<>>
    /\ leaf = <<>>
    /\ top = <<>>
    /\ texels = <<>>
    /\ GenOff

\* bbox = tile_system.get_bounding_box(tile)
tile_get_bounding_box ==
    /\ tsys.pc = "input"
    /\ tsys' = [tsys EXCEPT !.pc = "box",
                            !.bbox = TileSystem_get_bounding_box(tsys.ts, tsys.tile)]
    /\ UNCHANGED <<genVars, crop, obj, rd, mtl, gen, leaf, top, texels>>

\* idx = tile_system.get_index_vec_for_pt(pt, tile.zoom)
tile_get_index_vec_for_pt ==
    /\ tsys.pc = "box"
    /\ tsys' = [tsys EXCEPT !.pc = "index",
                            !.idx = index_vec_for_pt(tsys.ts, tsys.pt, PtGrid.den,
                                                     tsys.tile.zoom)]
    /\ UNCHANGED <<genVars, crop, obj, rd, mtl, gen, leaf, top, texels>>

\* children = list(tile_system.get_children(tile))
tile_get_children ==
    /\ tsys.pc = "index"
    /\ tsys' = [tsys EXCEPT !.pc = "children", !.children = get_children(tsys.tile)]
    /\ UNCHANGED <<genVars, crop, obj, rd, mtl, gen, leaf, top, texels>>

NextTile == tile_get_bounding_box \/ tile_get_index_vec_for_pt \/ tile_get_children

SpecTile == InitTile /\ [][NextTile]_vars

\* floor((pt - origin) / side) on axis a, the division rounding toward
\* minus infinity
FloorIndex(ts, pt, pt_den, zoom, a) ==
    ((pt[a] * ts.den - ts.tile_origin[a] * pt_den) * Pow2(zoom))
        \div (ts.tile_scale * pt_den)

\* C11: get_index_vec_for_pt gives the index of the tile for every point
\* with min <= p < max of the tile's box, tiles of negative index included;
\* on an axis where the point lies on the max face it gives index + 1; and
\* on every axis it gives floor((p - origin) / side), rounded toward minus
\* infinity.
C11_IndexRoundTrip ==
    tsys # <<>> /\ tsys.pc \in {"index", "children"} =>
        LET tile_idx == get_index_vec(tsys.tile)
        IN  /\ is_inside(tsys.bbox, tsys.pt, PtGrid.den) => tsys.idx = tile_idx
            /\ \A a \in 1..3 :
                   tsys.pt[a] * tsys.bbox.den = tsys.bbox.max_corner[a] * PtGrid.den
                       => tsys.idx[a] = tile_idx[a] + 1
            /\ \A a \in 1..3 :
                   tsys.idx[a] = FloorIndex(tsys.ts, tsys.pt, PtGrid.den,
                                            tsys.tile.zoom, a)

\* The boxes of the children the harness holds
ChildBoxes ==
    [c \in 1..Len(tsys.children) |->
        TileSystem_get_bounding_box(tsys.ts, tsys.children[c])]

\* The children whose box holds the point of the harness
ChildrenHolding(boxes) ==
    {c \in 1..Len(boxes) : is_inside(boxes[c], tsys.pt, PtGrid.den)}

\* C12: get_children yields exactly the eight tiles at zoom + 1 with the
\* indices 2 * parent + {0,1}^3; under half-open containment a point is in
\* the parent's box iff it is in the box of exactly one child and never in
\* two, and the corners of the children's boxes span the parent's box.
C12_ChildTiling ==
    tsys # <<>> /\ tsys.pc = "children" =>
        \A boxes \in {ChildBoxes} : \A holding \in {ChildrenHolding(boxes)} :
            LET t == tsys.tile
            IN  /\ Len(tsys.children) = 8
                /\ {tsys.children[c] : c \in 1..8}
                       = {Tile(t.zoom + 1, 2 * t.xi + xo, 2 * t.yi + yo, 2 * t.zi + zo) :
                              xo \in 0..1, yo \in 0..1, zo \in 0..1}
                /\ Cardinality({tsys.children[c] : c \in 1..8}) = 8
                /\ Cardinality(holding) <= 1
                /\ is_inside(tsys.bbox, tsys.pt, PtGrid.den) <=> holding # {}
                /\ \A a \in 1..3 :
                       /\ \A c \in 1..8 :
                              /\ boxes[c].min_corner[a] * tsys.bbox.den
                                     >= tsys.bbox.min_corner[a] * boxes[c].den
                              /\ boxes[c].max_corner[a] * tsys.bbox.den
                                     <= tsys.bbox.max_corner[a] * boxes[c].den
                       /\ \E c \in 1..8 : boxes[c].min_corner[a] * tsys.bbox.den
                                              = tsys.bbox.min_corner[a] * boxes[c].den
                       /\ \E c \in 1..8 : boxes[c].max_corner[a] * tsys.bbox.den
                                              = tsys.bbox.max_corner[a] * boxes[c].den

\* The children of a tile of negative index, the point inside the tile on
\* the face two children share: it is on the min face of the upper child.
C12_Witness ==
    /\ tsys # <<>>
    /\ tsys.pc = "children"
    /\ tsys.tile.xi < 0
    /\ is_inside(tsys.bbox, tsys.pt, PtGrid.den)
    /\ \E boxes \in {ChildBoxes} : \E c \in ChildrenHolding(boxes) :
           /\ tsys.children[c].xi = 2 * tsys.tile.xi + 1
           /\ tsys.pt[1] * boxes[c].den = boxes[c].min_corner[1] * PtGrid.den

----------------------------------------------------------------------------
(* The centroid rule of the crop. *)

\* Three times the mean of the position vertices of face i of the parent
\* geometry of the crop harness, on axis a
CentroidTimes3(i, a) ==
    crop.g.v[crop.g.f[i][1][1] + 1][a] + crop.g.v[crop.g.f[i][2][1] + 1][a]
        + crop.g.v[crop.g.f[i][3][1] + 1][a]

\* min <= c < max on every axis for the centroid c of face i
CentroidInBox(i) ==
    \A a \in 1..3 :
        /\ 3 * crop.bbox.min_corner[a] <= CentroidTimes3(i, a) * crop.bbox.den
        /\ CentroidTimes3(i, a) * crop.bbox.den < 3 * crop.bbox.max_corner[a]

\* C13: get_cropped keeps a face iff the mean c of its three position
\* vertices satisfies min <= c < max on all axes: the faces of the crop are
\* the parent's faces with that property, in the parent's order, with the
\* positions they had, so a centroid on the min corner or a min face is
\* kept and one on a max face is dropped.
C13_CentroidRule ==
    (crop # <<>> /\ crop.pc = "cropped" /\ crop.out.ok) =>
        \A want \in {SortedSeq({i \in 1..Len(crop.g.f) : CentroidInBox(i)})} :
            /\ Len(crop.out.geom.f) = Len(want)
            /\ \A j \in 1..Len(want) : \A k \in 1..3 :
                   crop.out.geom.v[crop.out.geom.f[j][k][1] + 1]
                       = crop.g.v[crop.g.f[want[j]][k][1] + 1]

\* A crop of two faces: the centroid of one is the min corner of the box and
\* the face is kept, the centroid of the other is on a max face, inside on
\* the other axes, and the face is dropped.
C13_Witness ==
    /\ crop # <<>>
    /\ crop.pc = "cropped"
    /\ crop.out.ok
    /\ Len(crop.g.f) = 2
    /\ Len(crop.out.geom.f) = 1
    /\ \E i \in 1..2 : \A a \in 1..3 :
           CentroidTimes3(i, a) * crop.bbox.den = 3 * crop.bbox.min_corner[a]
    /\ \E i \in 1..2 :
           /\ CentroidTimes3(i, 1) * crop.bbox.den = 3 * crop.bbox.max_corner[1]
           /\ \A a \in 2..3 :
                  /\ 3 * crop.bbox.min_corner[a] <= CentroidTimes3(i, a) * crop.bbox.den
                  /\ CentroidTimes3(i, a) * crop.bbox.den < 3 * crop.bbox.max_corner[a]

----------------------------------------------------------------------------
(* Tiles whose crop is empty (Spec). *)

\* No face of the input mesh has its centroid in the box of the tile with
\* the given path.  The boxes of a tile's ancestors hold the tile's box, so
\* this is the crop generate_tile computes for the tile being empty.
NoFaceInTile(tile_path) ==
    \A i \in 1..Len(geom.f) :
        ~is_inside(TileSystem_get_bounding_box(
                       tile_system,
                       Tile(tile_path[1], tile_path[2], tile_path[3], tile_path[4])),
                   face_centroid_sum(geom, i), 3)

\* The tile nodes in the metadata collected so far: the lists the frames
\* of the stack hold, and the list generate() got back
NodesSoFar ==
    UNION {{NodesOf(stack[i].out)[j] : j \in 1..Len(NodesOf(stack[i].out))} :
              i \in 1..Len(stack)}
    \cup (IF meta = <<>> THEN {}
          ELSE {NodesOf(meta[1].root.children)[j] :
                   j \in 1..Len(NodesOf(meta[1].root.children))})

\* C14: a tile whose crop is empty is skipped without an error: no file is
\* written under the tile's paths, generate_tile goes no further than the
\* crop for it (no tool runs for it, no child of it is visited), and no
\* node of the metadata is for it.
C14_EmptyCropSkipped ==
    phase \in {"generating", "writing", "installing", "done"} =>
        /\ \A p \in DOMAIN fs : p.tile # <<>> => ~NoFaceInTile(p.tile)
        /\ \A i \in 1..Len(stack) :
               (stack[i].fn = "generate_tile" /\ stack[i].pc # "crop")
                   => ~NoFaceInTile(get_path(stack[i].tile))
        /\ \A m \in NodesSoFar : ~NoFaceInTile(m.content.uri.tile)

\* A run has ended with exit status 0 and a manifest in which a tile has
\* fewer than eight children: generate_tile was called for the others and
\* found their crops empty.
C14_Witness ==
    /\ phase = "done"
    /\ exit_status = 0
    /\ error = "none"
    /\ ManifestInstalled
    /\ \E m \in NodesSoFar :
           /\ "children" \in DOMAIN m
           /\ Len(m.children) \in 1..7
           /\ \E c \in 1..8 :
                  NoFaceInTile(get_path(get_children(
                      Tile(m.content.uri.tile[1], m.content.uri.tile[2],
                           m.content.uri.tile[3], m.content.uri.tile[4]))[c]))

----------------------------------------------------------------------------
(* The face lines of Geometry.read: files whose face lines have vertex     *)
(* tokens of every form, one line with a form of its own for each token    *)
(* (the three tokens of a line need not agree) and with two or three       *)
(* tokens.                                                                 *)

\* How many face lines a file of the harness has at most.
MaxReadFaces == 2

\* The face line of triangle tri with the first ntok vertex tokens, token k
\* of the form forms[k]
FaceLine(tri, forms, ntok) ==
    Line("f", <<>>, [k \in 1..ntok |-> VertexToken(tri[k], forms[k])], "")

\* A file with all the arrays and m face lines: line p as given, the others
\* the triangle 1 2 3 in one form each
ReadFile(m, p, line, others) ==
    ObjFileArrays(Len(VertexPool), <<>>, <<>>, TRUE, TRUE)
    \o [i \in 1..m |->
           IF i = p THEN line
           ELSE FaceLine(<<1, 2, 3>>, [k \in 1..3 |-> others[i]], 3)]

NoRead == [ok |-> FALSE, geom |-> NoGeom]

InitRead ==
    /\ \E m \in 1..MaxReadFaces :
           \E p \in 1..m, tri \in Triangles(Len(VertexPool)), ntok \in 2..3,
              forms \in [1..3 -> TokenForms], others \in [1..m -> TokenForms] :
               rd = [pc |-> "input", p |-> p,
                     text |-> ReadFile(m, p, FaceLine(tri, forms, ntok), others),
                     out |-> NoRead]
    /\ crop = <<>>
    /\ obj = <<>>
    /\ tsys = <<>>
    /\ mtl = <<>>
    /\ gen = <<>>
    /\ leaf = <<>>
    /\ top = <<>>
    /\ texels = <<>>
    /\ GenOff

\* geom = Geometry.read(input_path)
rd_read ==
    /\ rd.pc = "input"
    /\ rd' = [rd EXCEPT !.pc = "read", !.out = Geometry_read(rd.text)]
    /\ UNCHANGED <<genVars, crop, obj, tsys, mtl, gen, leaf, top, texels>>

NextRead == rd_read

SpecRead == InitRead /\ [][NextRead]_vars

\* The face lines of the text of the harness, in order
FaceLines == SelectSeq(rd.text, LAMBDA l : l.cmd = "f")

\* Field a of a vertex token is there and not empty
Present(tok, a) == a <= Len(tok) /\ tok[a] # <<>>

\* C15: Geometry.read stores the face indices 0-based, with -1 for every
\* absent index: a present index n is stored as n - 1, an empty or missing
\* field as -1.
C15_AbsentIndexIsMinusOne ==
    (rd # <<>> /\ rd.pc = "read" /\ rd.out.ok) =>
        /\ Len(rd.out.geom.f) = Len(FaceLines)
        /\ \A i \in 1..Len(FaceLines) : \A k \in 1..3 : \A a \in 1..3 :
               rd.out.geom.f[i][k][a]
                   = IF Present(FaceLines[i].toks[k], a)
                     THEN FaceLines[i].toks[k][a][1] - 1
                     ELSE -1

\* The three tokens of a face line disagree on the presence of the texture
\* index or of the normal index
MixedFaceLine(line) ==
    /\ Len(line.toks) = 3
    /\ \E a \in 2..3 : \E j, k \in 1..3 :
           Present(line.toks[j], a) /\ ~Present(line.toks[k], a)

\* C16: Geometry.read rejects a file with a face line whose three tokens
\* disagree on the presence of the texture index or of the normal index: it
\* fails with a mesh parse error and returns no Geometry.
C16_MixedFaceRejected ==
    (rd # <<>> /\ rd.pc = "read"
        /\ \E i \in 1..Len(FaceLines) : MixedFaceLine(FaceLines[i]))
        => ~rd.out.ok

----------------------------------------------------------------------------
(* MtlLib.read and MtlLib.write on the text of an MTL file.                *)
(*                                                                         *)
(* A string is the sequence of its pieces: a piece is a whitespace         *)
(* character (" ", "\t", "\n") or a word, a run of other characters.  A    *)
(* line is a string as the file iterator yields it, with its "\n" when the *)
(* file has one there; a file is the sequence of its lines, and what write *)
(* puts out is one string, the writes one after the other.                 *)

\* How many lines an MTL file of the harness has at most.
MaxMtlLines == 2

IsSpace(c) == c \in {" ", "\t", "\n"}

NonSpaceFrom(str, i) == {j \in i..Len(str) : ~IsSpace(str[j])}

SpaceFrom(str, i) == {j \in i..Len(str) : IsSpace(str[j])}

\* str.split(None, 1): the first word, and the rest of the string from the
\* next word on when there is one
split_once(str) ==
    IF NonSpaceFrom(str, 1) = {} THEN <<>>
    ELSE LET i == SetMin(NonSpaceFrom(str, 1))
             j == IF SpaceFrom(str, i) = {} THEN Len(str) + 1
                  ELSE SetMin(SpaceFrom(str, i))
         IN  IF NonSpaceFrom(str, j) = {} THEN <<SubSeq(str, i, j - 1)>>
             ELSE <<SubSeq(str, i, j - 1),
                    SubSeq(str, SetMin(NonSpaceFrom(str, j)), Len(str))>>

\* str.rstrip()
rstrip(str) ==
    IF NonSpaceFrom(str, 1) = {} THEN <<>>
    ELSE SubSeq(str, 1, SetMax(NonSpaceFrom(str, 1)))

\* cv2.imread(path).shape[:2] for the images that exist beside the MTL file;
\* imread returns None for any other path
ImageShapes == (<<"tex.png">> :> <<4, 4>>) @@ (<<"my", " ", "tex.png">> :> <<2, 4>>)

\* One turn of the loop of MtlLib.read.  mtl_name is <<>> for None;
\* ok = FALSE stands for the AttributeError of None.shape.
MtlReadLine(st, line) ==
    LET st1 == [st EXCEPT !.lines = Append(@, line)]
        fields == split_once(line)
    IN  IF line = <<"#">> \/ Len(fields) < 2 THEN st1
        ELSE LET cmd == fields[1]
                 arg == rstrip(fields[2])
             IN  IF cmd = <<"newmtl">> THEN [st1 EXCEPT !.mtl_name = arg]
                 ELSE IF cmd = <<"map_Kd">>
                 THEN IF arg \in DOMAIN ImageShapes
                      THEN [st1 EXCEPT !.materials =
                                [n \in DOMAIN @ \cup {st.mtl_name} |->
                                    IF n = st.mtl_name
                                    THEN [path |-> arg, shape |-> ImageShapes[arg]]
                                    ELSE @[n]]]
                      ELSE [st1 EXCEPT !.ok = FALSE]
                 ELSE st1

RECURSIVE MtlReadLines(_, _, _)
MtlReadLines(st, text, i) ==
    IF i > Len(text) \/ ~st.ok THEN st
    ELSE The({MtlReadLines(next, text, i + 1) : next \in {MtlReadLine(st, text[i])}})

\* MtlLib.read(input_path) of a file with the given text
MtlLib_read_text(input_path, text) ==
    LET st == MtlReadLines([ok |-> TRUE, lines |-> <<>>, materials |-> <<>>,
                            mtl_name |-> <<>>], text, 1)
    IN  [ok |-> st.ok, lib |-> MtlLib(input_path, st.materials, st.lines)]

\* One turn of a write loop that puts out only the lines with a command
\* and an argument
MtlWriteLine_two_fields_only(line, texture_map) ==
    LET fields == split_once(line)
    IN  IF line = <<"#">> THEN line
        ELSE IF Len(fields) < 2 THEN <<>>
        ELSE IF fields[1] = <<"map_Kd">>
        THEN LET input_texture_image == rstrip(fields[2])
             IN  <<"map_Kd", " ">>
                 \o (IF input_texture_image \in DOMAIN texture_map
                     THEN texture_map[input_texture_image]
                     ELSE input_texture_image)
                 \o <<"\n">>
        ELSE line

\* One turn of the loop of MtlLib.write: what it writes for a line
MtlWriteLine(line, texture_map) ==
    LET fields == split_once(line)
    IN  IF line = <<"#">> THEN line
        ELSE IF Len(fields) < 2 THEN line
        ELSE IF fields[1] = <<"map_Kd">>
        THEN LET input_texture_image == rstrip(fields[2])
             IN  <<"map_Kd", " ">>
                 \o (IF input_texture_image \in DOMAIN texture_map
                     THEN texture_map[input_texture_image]
                     ELSE input_texture_image)
                 \o <<"\n">>
        ELSE line

\* MtlLib.write(output_path, texture_map): the contents of the file written
RECURSIVE MtlLib_write(_, _, _)
MtlLib_write(lines, texture_map, i) ==
    IF i > Len(lines) THEN <<>>
    ELSE MtlWriteLine(lines[i], texture_map) \o MtlLib_write(lines, texture_map, i + 1)

\* The lines an MTL file may have, and those only its last line may be: the
\* ones with no "\n"
MtlInnerLines ==
    {<<"newmtl", " ", "m0", "\n">>,
     <<"map_Kd", " ", "tex.png", "\n">>,
     <<"\t", "map_Kd", "\t", "tex.png", " ", "\n">>,
     <<"map_Kd", " ", "my", " ", "tex.png", "\n">>,
     <<"map_Kd", "\n">>,
     <<"map_Kd", " ", "gone.png", "\n">>,
     <<"Kd", " ", "1", " ", "1", "\n">>,
     <<"#", " ", "tex.png", "\n">>,
     <<"#", "\n">>,
     <<"\n">>}

MtlLastLines ==
    MtlInnerLines \cup {<<"map_Kd", " ", "tex.png">>, <<"Kd", " ", "1">>, <<"#">>}

\* The texture maps of a write: None or {} (no key), the map upsample_texture
\* builds for tex.png, and a map of other images
TextureMaps ==
    {<<>>,
     (<<"tex.png">> :> <<"..", "/", "up_tex.png">>),
     (<<"my", " ", "tex.png">> :> <<"up_my", " ", "tex.png">>)
         @@ (<<"other.png">> :> <<"up_other.png">>)}

InitMtl ==
    /\ \E m \in 1..MaxMtlLines :
           \E inner \in [1..(m - 1) -> MtlInnerLines], last \in MtlLastLines,
              texture_map \in TextureMaps :
               mtl = [pc |-> "input", text |-> inner \o <<last>>,
                      texture_map |-> texture_map,
                      lib |-> NoMtlLib, out |-> <<>>]
    /\ crop = <<>>
    /\ obj = <<>>
    /\ tsys = <<>>
    /\ rd = <<>>
    /\ gen = <<>>
    /\ leaf = <<>>
    /\ top = <<>>
    /\ texels = <<>>
    /\ GenOff

\* mtllib = MtlLib.read(input_mtl_path)
mtl_read ==
    /\ mtl.pc = "input"
    /\ \E r \in {MtlLib_read_text("in", mtl.text)} :
           mtl' = [mtl EXCEPT !.pc = IF r.ok THEN "read" ELSE "error", !.lib = r.lib]
    /\ UNCHANGED <<genVars, crop, obj, tsys, rd, gen, leaf, top, texels>>

\* mtllib.write(output_mtl_path, texture_map)
mtl_write ==
    /\ mtl.pc = "read"
    /\ mtl' = [mtl EXCEPT !.pc = "written",
                          !.out = MtlLib_write(mtl.lib.lines, mtl.texture_map, 1)]
    /\ UNCHANGED <<genVars, crop, obj, tsys, rd, gen, leaf, top, texels>>

NextMtl == mtl_read \/ mtl_write

SpecMtl == InitMtl /\ [][NextMtl]_vars

\* The lines of a string: it is cut after every "\n"
RECURSIVE LinesOf(_)
LinesOf(str) ==
    IF str = <<>> THEN <<>>
    ELSE LET ends == {j \in 1..Len(str) : str[j] = "\n"}
             n == IF ends = {} THEN Len(str) ELSE SetMin(ends)
         IN  <<SubSeq(str, 1, n)>> \o LinesOf(SubSeq(str, n + 1, Len(str)))

\* The words of a string, in order
WordsOf(str) == SelectSeq(str, LAMBDA c : ~IsSpace(c))

\* A map_Kd line: its first word is map_Kd and more words follow
IsMapKd(line) == Len(WordsOf(line)) >= 2 /\ WordsOf(line)[1] = "map_Kd"

\* The path a map_Kd line names: what follows the whitespace after map_Kd,
\* up to the last word
PathOf(line) ==
    LET words == {j \in 1..Len(line) : ~IsSpace(line[j])}
        first == SetMin(words)
    IN  SubSeq(line, SetMin(words \ {first}), SetMax(words))

\* C17: MtlLib.write emits exactly one output line per line MtlLib.read
\* read, in the same order; every line that is not a map_Kd line is
\* byte-identical; each map_Kd line names texture_map[path] if path is a
\* key of texture_map and the original path otherwise.
C17_MtlLinesPreserved ==
    (mtl # <<>> /\ mtl.pc = "written") =>
        \A out \in {LinesOf(mtl.out)} :
            /\ mtl.lib.lines = mtl.text
            /\ Len(out) = Len(mtl.text)
            /\ \A i \in 1..Len(mtl.text) :
                   IF IsMapKd(mtl.text[i])
                   THEN /\ IsMapKd(out[i])
                        /\ PathOf(out[i])
                               = IF PathOf(mtl.text[i]) \in DOMAIN mtl.texture_map
                                 THEN mtl.texture_map[PathOf(mtl.text[i])]
                                 ELSE PathOf(mtl.text[i])
                   ELSE out[i] = mtl.text[i]

\* A file of two lines is written back: a line with a command only, and a
\* map_Kd line with tabs and trailing blanks whose path is a key of the
\* texture map.
C17_Witness ==
    /\ mtl # <<>>
    /\ mtl.pc = "written"
    /\ Len(mtl.text) = 2
    /\ \E i \in 1..2 : Len(WordsOf(mtl.text[i])) = 1
    /\ \E i \in 1..2 :
           /\ IsMapKd(mtl.text[i])
           /\ mtl.text[i][1] = "\t"
           /\ PathOf(mtl.text[i]) \in DOMAIN mtl.texture_map

----------------------------------------------------------------------------
(* The paths of the tiles of one generate() call (Spec). *)

\* str(n) for an integer n: its decimal digits, after "-" when n < 0
RECURSIVE str_nat(_)
str_nat(n) ==
    LET digit == <<"0", "1", "2", "3", "4", "5", "6", "7", "8", "9">>[(n % 10) + 1]
    IN  IF n < 10 THEN <<digit>> ELSE str_nat(n \div 10) \o <<digit>>

str_int(n) == IF n < 0 THEN <<"-">> \o str_nat(-n) ELSE str_nat(n)

\* The string the path record p stands for: the area, then the components
\* of the tile as "{zoom}/{xi}/{yi}/{zi}" formats them, then the suffix and
\* the extension
PathString(p) ==
    <<p.area, "/">>
    \o (IF p.tile = <<>> THEN <<>>
        ELSE str_int(p.tile[1]) \o <<"/">> \o str_int(p.tile[2]) \o <<"/">>
             \o str_int(p.tile[3]) \o <<"/">> \o str_int(p.tile[4]))
    \o p.name

\* The crop, repack, downsample (rotated back for the debug viewer or not),
\* output and installed paths of a tile
TilePaths(tile) ==
    {get_crop_tile_path(tile, ext) : ext \in {".obj", ".mtl"}}
    \cup {get_repack_tile_path(tile, ext) : ext \in {".obj", ".mtl", ".png"}}
    \cup {get_downsample_tile_path(tile, ext) : ext \in {".obj", ".mtl", ".jpg", ".b3dm"}}
    \cup {Path("build", get_path(tile), <<"_downsample", "_unrot", ext>>) :
              ext \in {".obj", ".mtl", ".glb"}}
    \cup {get_output_tile_path(tile, ext) : ext \in {".b3dm", ".glb"}}
    \cup {install_path(get_output_tile_path(tile, ".b3dm"))}

\* The path p is created, removed or rewritten by the step
Touched(p) ==
    \/ p \in DOMAIN fs /\ p \notin DOMAIN fs'
    \/ p \notin DOMAIN fs /\ p \in DOMAIN fs'
    \/ p \in DOMAIN fs /\ p \in DOMAIN fs' /\ fs[p] # fs'[p]

\* In every state: generate_tile has been called at most once for a tile,
\* nothing is under the paths of a tile when generate_tile is called for
\* it, and the path strings of two tiles called so far are all distinct.
TilePathsApart ==
    /\ \A i, j \in 1..Len(log) : i < j => log[i] # log[j]
    /\ AtTile("crop") => \A p \in DOMAIN fs : p.tile # get_path(Top.tile)
    /\ \A strings \in {[i \in 1..Len(log) |->
                            {PathString(p) : p \in TilePaths(log[i])}]} :
           \A i, j \in 1..Len(log) : i < j => strings[i] \cap strings[j] = {}

\* In every step of generate_tile for a tile: the tile paths the step
\* creates, removes or rewrites are paths of that tile.
TileStepsOwnPaths ==
    (phase = "generating" /\ stack # <<>> /\ Top.fn = "generate_tile") =>
        \A p \in DOMAIN fs \cup DOMAIN fs' :
            (Touched(p) /\ p.tile # <<>>) => p.tile = get_path(Top.tile)

\* C18: during one generate() call no tile writes to another tile's paths:
\* the crop, repack, downsample, output and installed paths of two distinct
\* tiles are all distinct, every step of generate_tile touches only paths of
\* its own tile, and generate_tile is invoked at most once per tile.
C18_TilePathsDisjoint == []TilePathsApart /\ [][TileStepsOwnPaths]_vars

\* A call of generate() has ended after generate_tile was called for tiles
\* at three zoom levels, two of them with files installed.
C18_Witness ==
    /\ phase = "done"
    /\ \E i, j, k \in 1..Len(log) :
           /\ log[i].zoom < log[j].zoom
           /\ log[j].zoom < log[k].zoom
           /\ install_path(get_output_tile_path(log[i], ".b3dm")) \in DOMAIN fs
           /\ install_path(get_output_tile_path(log[j], ".b3dm")) \in DOMAIN fs

----------------------------------------------------------------------------
(* One TileGenerator whose generate() is called for one mesh after the     *)
(* other: what the calls do to the generator's up_texture_map.             *)

\* How many times generate() is called on the generator.
MaxGenerateCalls == 3

\* The texture images of the meshes
MeshImages ==
    {[dir |-> "", stem |-> "tex", ext |-> ".png"],
     [dir |-> "", stem |-> "wall", ext |-> ".jpg"],
     [dir |-> "", stem |-> "floor", ext |-> ".png"],
     [dir |-> "", stem |-> "roof", ext |-> ".jpg"]}

\* The materials of a mesh: one or two materials, on different images
MeshMaterials ==
    {<<[name |-> "m0", path |-> a, shape |-> <<4, 4>>]>> : a \in MeshImages}
    \cup {<<[name |-> "m0", path |-> ab[1], shape |-> <<4, 4>>],
            [name |-> "m1", path |-> ab[2], shape |-> <<4, 4>>]>> :
              ab \in {x \in MeshImages \X MeshImages : x[1] # x[2]}}

\* generator = TileGenerator(out_path, ...): self.up_texture_map = {}
InitReuse ==
    /\ gen = [calls |-> 0, up_texture_map |-> <<>>, input_texel_size |-> <<0, 1>>,
              fs |-> <<>>, materials |-> <<>>]
    /\ crop = <<>>
    /\ obj = <<>>
    /\ tsys = <<>>
    /\ rd = <<>>
    /\ mtl = <<>>
    /\ leaf = <<>>
    /\ top = <<>>
    /\ texels = <<>>
    /\ GenOff

\* generator.generate(geom) for the next mesh: the statements of generate()
\* and of what it calls that assign to the generator's fields,
\* self.input_texel_size = geom.get_median_texel_size() and
\* self.upsample_texture(geom)
gen_generate ==
    /\ gen.calls < MaxGenerateCalls
    /\ \E materials \in MeshMaterials, texel \in TexelSizes :
           \E up \in {upsample_texture(materials, gen.fs, gen.up_texture_map)} :
               gen' = [calls |-> gen.calls + 1, up_texture_map |-> up.up_texture_map,
                       input_texel_size |-> texel, fs |-> up.fs, materials |-> materials]
    /\ UNCHANGED <<genVars, crop, obj, tsys, rd, mtl, leaf, top, texels>>

NextReuse == gen_generate

SpecReuse == InitReuse /\ [][NextReuse]_vars

\* C19: the texture-upsample map does not persist across generate() calls:
\* after any sequence of calls it holds only entries for the most recent
\* mesh, the images of that mesh's materials.
C19_UpTextureMapPerCall ==
    (gen # <<>> /\ gen.calls >= 1) =>
        DOMAIN gen.up_texture_map
            = {gen.materials[i].path : i \in 1..Len(gen.materials)}

----------------------------------------------------------------------------
(* The force-full-resolution rule (Spec). *)

\* The generate_tile frames whose downsample_texture step has run
DownsampledFrames ==
    {i \in 1..Len(stack) :
        /\ stack[i].fn = "generate_tile"
        /\ stack[i].pc \in {"convert_to_b3dm", "convert_to_glb", "meta", "children"}}

\* C20: for every tile generate_tile processes, top tiles included, if the
\* tile's cropped geometry has as many faces as the parent geometry the
\* atlas is written at scale 1 / UPSAMPLE_FACTOR, an effective scale of 1,
\* whatever the target budget; otherwise it is resized toward the target
\* (never above that scale).
C20_ForceFullRes ==
    \A i \in DownsampledFrames :
        LET fr == stack[i]
            toward_target ==
                resize_to(<<args.image_size, args.image_size>>, fr.atlas,
                          <<1, UPSAMPLE_FACTOR>>)
        IN  IF Len(fr.geom.f) = Len(fr.parent_geom.f)
            THEN fr.scale_factor[1] = fr.scale_factor[2]
            ELSE fr.scale_factor[1] * toward_target[2]
                     = toward_target[1] * UPSAMPLE_FACTOR * fr.scale_factor[2]

----------------------------------------------------------------------------
(* Screen-space error propagation (Spec). *)

RatEq(a, b) == a[1] * b[2] = b[1] * a[2]

\* input_texel_size / scale_factor is the geometricError e
IsTexelOverScale(e, scale_factor) ==
    e[1] * input_texel_size[2] * scale_factor[1]
        = e[2] * input_texel_size[1] * scale_factor[2]

\* The downsample scale of a generate_tile frame times UPSAMPLE_FACTOR
EffectiveScale(fr) ==
    LET s == IF ~fr.root /\ Len(fr.parent_geom.f) = Len(fr.geom.f)
             THEN <<1, UPSAMPLE_FACTOR>>
             ELSE resize_to(<<args.image_size, args.image_size>>, fr.atlas,
                            <<1, UPSAMPLE_FACTOR>>)
    IN  <<s[1] * UPSAMPLE_FACTOR, s[2]>>

\* The errors carried by the calls in progress and by the nodes they have
\* returned so far
ErrorsPropagated ==
    /\ \A i \in 1..Len(stack) :
          \A fr \in {stack[i]} :
              IF fr.fn = "generate_top_tiles"
              THEN \A k \in 1..Len(fr.out) :
                       fr.out[k].geometricError = <<BIG_GEOMETRIC_ERROR, 1>>
              ELSE /\ fr.root => fr.parent_max_error = <<BIG_GEOMETRIC_ERROR, 1>>
                   /\ ~fr.root =>
                          /\ stack[i - 1].fn = "generate_tile"
                          /\ IsTexelOverScale(fr.parent_max_error,
                                              EffectiveScale(stack[i - 1]))
                   /\ fr.meta # <<>> => fr.meta[1].geometricError = fr.parent_max_error
                   /\ \A k \in 1..Len(fr.out) :
                          IsTexelOverScale(fr.out[k].geometricError, EffectiveScale(fr))
    /\ meta # <<>> =>
          /\ meta[1].geometricError = <<BIG_GEOMETRIC_ERROR, 1>>
          /\ meta[1].root.geometricError = <<BIG_GEOMETRIC_ERROR, 1>>
          /\ \A k \in 1..Len(meta[1].root.children) :
                 meta[1].root.children[k].geometricError = <<BIG_GEOMETRIC_ERROR, 1>>

\* The median texel size is set by generate() before the first tile and left
\* alone afterwards.
TexelSizeSetOnce ==
    phase \in {"generating", "writing", "installing"}
        => input_texel_size' = input_texel_size

\* C21: the manifest root and every top tile carry geometricError
\* BIG_GEOMETRIC_ERROR; every other tile's geometricError is its parent's
\* max_error: the median texel size of the source mesh, computed once at the
\* start of generate(), divided by the parent tile's effective scale factor
\* (its downsample scale times UPSAMPLE_FACTOR).
C21_ErrorPropagation == []ErrorsPropagated /\ [][TexelSizeSetOnce]_vars

\* A finished run whose manifest holds a tile below a top tile, with the
\* error of the top tile's scale
C21_Witness ==
    /\ phase = "done"
    /\ \E k \in 1..Len(meta[1].root.children) :
          \E node \in {meta[1].root.children[k]} :
              /\ "children" \in DOMAIN node
              /\ node.children # <<>>
              /\ node.children[1].geometricError # <<BIG_GEOMETRIC_ERROR, 1>>

----------------------------------------------------------------------------
(* The leaf test of generate_tile (SpecLeaf): the statements of one call    *)
(* from downsample_texture on, for a tile whose crop is not empty.  The     *)
(* recursive calls on the children are not followed: each returns None or   *)
(* the metadata of a child node.                                            *)

\* --image_size values and atlas sizes <<width, height>> of the tile
LeafTargets == {2, 999, 1000}

LeafAtlases == {<<2, 2>>, <<500, 1000>>, <<1000, 1000>>, <<1000, 2000>>}

\* Meshes of one and of two faces
LeafMesh(faces) == Geometry_read(ObjFile(4, faces, "v/vt")).geom

InitLeaf ==
    /\ \E target \in LeafTargets, atlas \in LeafAtlases, root \in BOOLEAN,
          texel \in TexelSizes,
          tile \in {Tile(0, 0, 0, 0), Tile(1, 1, 0, 1)},
          faces \in {<< <<<<1, 2, 3>>>>, <<<<1, 2, 3>>>> >>,
                     << <<<<1, 2, 3>>, <<1, 2, 4>>>>, <<<<1, 2, 3>>>> >>,
                     << <<<<1, 2, 3>>, <<1, 2, 4>>>>, <<<<1, 2, 3>>, <<1, 2, 4>>>> >>} :
           leaf = [pc |-> "downsample_texture", target |-> target, atlas |-> atlas,
                   input_texel_size |-> texel, tile |-> tile, root |-> root,
                   parent_geom |-> LeafMesh(faces[1]), geom |-> LeafMesh(faces[2]),
                   parent_max_error |-> IF root THEN <<BIG_GEOMETRIC_ERROR, 1>>
                                        ELSE max_error(texel, <<1, 2>>),
                   scale_factor |-> <<0, 1>>, meta |-> <<>>, todo |-> <<>>,
                   calls |-> <<>>, returned |-> <<>>, result |-> <<>>]
    /\ crop = <<>>
    /\ obj = <<>>
    /\ tsys = <<>>
    /\ rd = <<>>
    /\ mtl = <<>>
    /\ gen = <<>>
    /\ top = <<>>
    /\ texels = <<>>
    /\ GenOff

\* force_full_res = ...; scale_factor = self.downsample_texture(tile, force_full_res)
leaf_downsample_texture ==
    /\ leaf.pc = "downsample_texture"
    /\ leaf' = [leaf EXCEPT
                   !.pc = "meta",
                   !.scale_factor =
                       downsample_texture_scale(
                           leaf.target, leaf.atlas,
                           force_full_res(leaf.root, leaf.parent_geom, leaf.geom))]
    /\ UNCHANGED <<genVars, crop, obj, tsys, rd, mtl, gen, top, texels>>

\* meta = {...}; max_error = ...; if scale_factor > 0.999: return meta;
\* meta["children"] = []
leaf_assemble_meta ==
    /\ leaf.pc = "meta"
    /\ \E m \in {TileMeta(get_bounding_volume(leaf.geom),
                          rel_path_from_file(get_output_tile_path(leaf.tile, ".b3dm"),
                                             get_tileset_path),
                          leaf.parent_max_error)} :
           leaf' = IF is_leaf(leaf.scale_factor)
                   THEN [leaf EXCEPT !.pc = "returned", !.result = <<m>>]
                   ELSE [leaf EXCEPT !.pc = "children",
                                     !.meta = <<WithChildren(m, <<>>)>>,
                                     !.todo = get_children(leaf.tile)]
    /\ UNCHANGED <<genVars, crop, obj, tsys, rd, mtl, gen, top, texels>>

\* The metadata a generate_tile call on a child returns when the child has
\* geometry
ChildMeta(child, parent_max_error) ==
    TileMeta(get_bounding_volume(leaf.geom),
             rel_path_from_file(get_output_tile_path(child, ".b3dm"), get_tileset_path),
             parent_max_error)

\* for child in get_children(tile): child_meta = self.generate_tile(geom,
\* child, False, max_error); if child_meta is not None:
\* meta["children"].append(child_meta) ...; return meta
leaf_expand_children ==
    /\ leaf.pc = "children"
    /\ IF Len(leaf.calls) < Len(leaf.todo)
       THEN \E child \in {leaf.todo[Len(leaf.calls) + 1]},
               err \in {max_error(leaf.input_texel_size, leaf.scale_factor)} :
                \E child_meta \in {<<>>, <<ChildMeta(child, err)>>} :
                    leaf' = [leaf EXCEPT
                                !.calls = Append(@, [parent_geom |-> leaf.geom,
                                                     tile |-> child, root |-> FALSE,
                                                     parent_max_error |-> err]),
                                !.returned = Append(@, child_meta),
                                !.meta = <<WithChildren(@[1], @[1].children \o child_meta)>>]
       ELSE leaf' = [leaf EXCEPT !.pc = "returned", !.result = leaf.meta]
    /\ UNCHANGED <<genVars, crop, obj, tsys, rd, mtl, gen, top, texels>>

NextLeaf == leaf_downsample_texture \/ leaf_assemble_meta \/ leaf_expand_children

SpecLeaf == InitLeaf /\ [][NextLeaf]_vars

\* The metadata the calls returned so far, None left out
RECURSIVE NonNone(_)
NonNone(returned) ==
    IF returned = <<>> THEN <<>> ELSE Head(returned) \o NonNone(Tail(returned))

\* What the claim says of a returned node, the scale factor being a leaf's
\* when at_source_resolution
LeafRule(at_source_resolution) ==
    (leaf # <<>> /\ leaf.pc = "returned") =>
        /\ ("children" \notin DOMAIN leaf.result[1]) <=> at_source_resolution
        /\ IF at_source_resolution
           THEN leaf.calls = <<>>
           ELSE /\ Len(leaf.calls) = 8
                /\ \A k \in 1..8 :
                       /\ leaf.calls[k].tile = get_children(leaf.tile)[k]
                       /\ leaf.calls[k].parent_geom = leaf.geom
                /\ leaf.result[1].children = NonNone(leaf.returned)

\* C22, amended: a tile node has no children entry exactly when its
\* effective scale factor is greater than 0.999; otherwise generate_tile is
\* invoked once on each of the eight get_children tiles with this tile's
\* cropped geometry as parent, and the node's children are exactly the
\* non-None results.
C22_LeafTest ==
    LeafRule(leaf.scale_factor[1] * 1000 > 999 * leaf.scale_factor[2])

\* A returned node of scale factor exactly 0.999, with children, some of
\* the eight calls having returned None
C22_Witness ==
    /\ leaf # <<>> /\ leaf.pc = "returned"
    /\ leaf.scale_factor[1] * 1000 = 999 * leaf.scale_factor[2]
    /\ "children" \in DOMAIN leaf.result[1]
    /\ Len(leaf.result[1].children) \in 1..7

\* C22 as stated: a tile node has no children entry exactly when its
\* effective scale factor is at least 1 - 0.001; otherwise generate_tile is
\* invoked once on each of the eight get_children tiles with this tile's
\* cropped geometry as parent, and the node's children are exactly the
\* non-None results.
C22_LeafTestAtLeast ==
    LeafRule(leaf.scale_factor[1] * 1000 >= 999 * leaf.scale_factor[2])

----------------------------------------------------------------------------
(* generate_top_tiles over tile systems of any origin (SpecTop): the index  *)
(* range, then for each enumerated tile the faces its crop keeps.           *)

\* Tile systems in units of 1/2: those of the tile system harness, and two
\* whose origin lies inside the bounding box of the meshes
TopTileSystems ==
    TileSystems \cup {TileSystem(<<5, 1, 1>>, s, 2) : s \in {3, 8}}

InitTop ==
    /\ \E ts \in TopTileSystems, zoom \in 0..1, n \in 3..Len(VertexPool) :
           \E faces \in FaceLists(n) :
               top = [pc |-> "generate_top_tiles", ts |-> ts, min_zoom |-> zoom,
                      geom |-> Geometry_read(ObjFile(n, faces, "v/vt")).geom,
                      tiles |-> <<>>, kept |-> <<>>]
    /\ crop = <<>>
    /\ obj = <<>>
    /\ tsys = <<>>
    /\ rd = <<>>
    /\ mtl = <<>>
    /\ gen = <<>>
    /\ leaf = <<>>
    /\ texels = <<>>
    /\ GenOff

\* bbox = geom.get_bounding_box(); min_idx = ...; max_idx = ...: the tiles
\* of the three range() loops
top_index_range ==
    /\ top.pc = "generate_top_tiles"
    /\ top' = [top EXCEPT !.pc = "loop",
                          !.tiles = top_tiles(top.ts, top.min_zoom, top.geom)]
    /\ UNCHANGED <<genVars, crop, obj, tsys, rd, mtl, gen, leaf, texels>>

\* child_meta = self.generate_tile(geom, tile, True, BIG_GEOMETRIC_ERROR) for
\* the next tile: the faces kept by its get_cropped; after the last tile,
\* return meta
top_generate_tile ==
    /\ top.pc = "loop"
    /\ IF Len(top.kept) < Len(top.tiles)
       THEN \E tile \in {top.tiles[Len(top.kept) + 1]} :
                top' = [top EXCEPT
                           !.kept = Append(@, keep_faces(top.geom,
                                              TileSystem_get_bounding_box(top.ts, tile)))]
       ELSE top' = [top EXCEPT !.pc = "returned"]
    /\ UNCHANGED <<genVars, crop, obj, tsys, rd, mtl, gen, leaf, texels>>

NextTop == top_index_range \/ top_generate_tile

SpecTop == InitTop /\ [][NextTop]_vars

\* C23: for any tile system origin and scale and any min_zoom, geometry at
\* negative tile indices included, the tiles enumerated by
\* generate_top_tiles cover the geometry's bounding box: every face of the
\* source mesh has its centroid inside the bounding box of exactly one
\* enumerated top tile.
C23_TopTilesCover ==
    (top # <<>> /\ top.pc = "returned") =>
        \A i \in 1..Len(top.geom.f) :
            Cardinality({k \in 1..Len(top.tiles) : i \in top.kept[k]}) = 1

----------------------------------------------------------------------------
(* The bounding volumes of the tile nodes (Spec). *)

\* The tile of a node, from its content uri
TileOfNode(m) ==
    Tile(m.content.uri.tile[1], m.content.uri.tile[2], m.content.uri.tile[3],
         m.content.uri.tile[4])

\* The point pt is inside the boundingVolume box bv: on each axis its
\* distance from the centre is at most the half length
InVolume(bv, pt) ==
    \A a \in 1..3 :
        /\ pt[a] * bv.den - bv.box[a] <= bv.box[4 * a]
        /\ bv.box[a] - pt[a] * bv.den <= bv.box[4 * a]

\* The vertices of the faces of the source mesh that the tile keeps
VerticesKept(tile) ==
    {Row(geom.v, geom.f[i][k][1]) :
        i \in keep_faces(geom, TileSystem_get_bounding_box(tile_system, tile)),
        k \in 1..3}

\* C24: every tile node's boundingVolume box is computed from the tile's
\* actual cropped geometry, not from the nominal tile box: it contains
\* every vertex of every face kept in that tile, also when a face extends
\* beyond the nominal tile bounding box.
C24_VolumeHoldsKeptFaces ==
    \A m \in NodesSoFar :
        \A pt \in VerticesKept(TileOfNode(m)) : InVolume(m.boundingVolume, pt)

\* A node of the manifest of a finished run whose tile keeps a face with a
\* vertex outside the nominal box of the tile
C24_Witness ==
    /\ phase = "done"
    /\ \E m \in NodesSoFar :
          \E pt \in VerticesKept(TileOfNode(m)) :
              ~is_inside_closed(TileSystem_get_bounding_box(tile_system, TileOfNode(m)),
                                pt, 1)

----------------------------------------------------------------------------
(* The material of a face through Geometry.read and Geometry.write          *)
(* (SpecMaterial): files whose usemtl lines and face lines come in any      *)
(* order.                                                                   *)

\* The number of usemtl and face lines of a file
MaxBodyLines == 4

MaterialNames == {"m0", "m1"}

\* Line p of the body: usemtl <kind>, or for kind "f" a face line
BodyLine(kind, p) ==
    IF kind = "f"
    THEN FaceLine(<< <<1, 2, 3>>, <<1, 2, 4>>, <<1, 3, 4>>, <<2, 3, 4>> >>[((p - 1) % 4) + 1],
                  [k \in 1..3 |-> "v/vt/vn"], 3)
    ELSE Line("usemtl", <<>>, <<>>, kind)

\* A file with the mtllib line and all the arrays, then the body
MaterialFile(body) ==
    \E arrays \in {ObjFileArrays(Len(VertexPool), <<>>, <<>>, TRUE, TRUE)} :
        rd = [pc |-> "input", p |-> 0,
              text |-> SubSeq(arrays, 1, Len(arrays) - 1)
                           \o [p \in 1..Len(body) |-> BodyLine(body[p], p)],
              out |-> NoRead, written |-> [ok |-> FALSE, text |-> <<>>]]

InitMaterial ==
    /\ \E n \in 1..MaxBodyLines :
           \E body \in [1..n -> MaterialNames \cup {"f"}] : MaterialFile(body)
    /\ crop = <<>>
    /\ obj = <<>>
    /\ tsys = <<>>
    /\ mtl = <<>>
    /\ gen = <<>>
    /\ leaf = <<>>
    /\ top = <<>>
    /\ texels = <<>>
    /\ GenOff

\* geom.write(output_path)
rd_write ==
    /\ rd.pc = "read"
    /\ rd.out.ok
    /\ rd' = [rd EXCEPT !.pc = "written", !.written = Geometry_write(rd.out.geom, "out")]
    /\ UNCHANGED <<genVars, crop, obj, tsys, mtl, gen, leaf, top, texels>>

NextMaterial == rd_read \/ rd_write

SpecMaterial == InitMaterial /\ [][NextMaterial]_vars

\* The position in text of its i-th face line
FacePosition(text, i) ==
    SortedSeq({p \in 1..Len(text) : text[p].cmd = "f"})[i]

\* The usemtl lines of text before line p
UsemtlBefore(text, p) == {q \in 1..(p - 1) : text[q].cmd = "usemtl"}

\* The name of the last usemtl line of text before line p, <<>> if none
MaterialBefore(text, p) ==
    IF UsemtlBefore(text, p) = {} THEN <<>>
    ELSE <<text[SetMax(UsemtlBefore(text, p))].name>>

\* C25: after Geometry.read, for every face i the material index f_mtl[i]
\* is the index in usemtl of the name pushed by the most recent usemtl line
\* before that face line, so it always refers to an existing entry
\* (0 <= f_mtl[i] < len(usemtl)), and Geometry.write emits the face under
\* exactly that material name.
C25_FaceMaterial ==
    (rd # <<>> /\ rd.pc \in {"read", "written"} /\ rd.out.ok) =>
        \A i \in 1..Len(rd.out.geom.f) :
            \A p \in {FacePosition(rd.text, i)}, fm \in {rd.out.geom.f_mtl[i]} :
                /\ 0 <= fm /\ fm < Len(rd.out.geom.usemtl)
                /\ fm = Cardinality(UsemtlBefore(rd.text, p)) - 1
                /\ <<rd.out.geom.usemtl[fm + 1]>> = MaterialBefore(rd.text, p)
                /\ rd.pc = "written" =>
                       /\ rd.written.ok
                       /\ MaterialBefore(rd.written.text, FacePosition(rd.written.text, i))
                              = MaterialBefore(rd.text, p)

----------------------------------------------------------------------------
(* Geometry.get_median_texel_size (SpecTexel).  Lengths are kept as their   *)
(* squares, which are exact; the median is kept as the middle ratio, or the *)
(* two middle ratios, of the sorted list, as squares of xyz length over     *)
(* texel length.                                                            *)

\* The faces of a mesh
MaxTexelFaces == 2

\* img.shape[:2] of the texture images: <<height, width>>
TexelImageShapes == {<<4, 4>>, <<2, 8>>}

\* The vt rows of the meshes, and the vt indices of the three vertices of a
\* face: three different rows, one row three times, two rows
UvPool == << <<0, 0>>, <<1, 0>>, <<0, 1>> >>

UvTriangles == {<<0, 1, 2>>, <<0, 0, 0>>, <<1, 1, 2>>, <<0, 2, 2>>, <<2, 1, 0>>}

\* A mesh of Len(uv) faces over the first three pool vertices, face i with the
\* vt indices uv[i] and the material f_mtl[i] of two, whose images have the
\* shapes given
TexelGeom(uv, shapes, f_mtl) ==
    Geometry([i \in 1..3 |-> VertexPool[i]], UvPool, <<>>,
             [i \in 1..Len(uv) |-> [k \in 1..3 |-> <<k - 1, uv[i][k], -2>>]],
             MtlLib("in",
                    [j \in 1..2 |->
                        [name |-> <<"m0", "m1">>[j],
                         path |-> [dir |-> "", stem |-> <<"tex0", "tex1">>[j], ext |-> ".png"],
                         shape |-> shapes[j]]],
                    <<>>),
             <<"m0", "m1">>, f_mtl)

\* np.diff(tris, axis=1, append=tris[:, 0:1, :]): per face the three sides
\* t[1] - t[0], t[2] - t[1], t[0] - t[2]
side_diffs(tris) ==
    [i \in 1..Len(tris) |->
        [k \in 1..3 |->
            [a \in 1..Len(tris[i][1]) |-> tris[i][(k % 3) + 1][a] - tris[i][k][a]]]]

\* The squares of np.linalg.norm(diffs, axis=2).reshape(-1)
squared_side_lengths(diffs) ==
    [e \in 1..(3 * Len(diffs)) |->
        LET d == diffs[((e - 1) \div 3) + 1][((e - 1) % 3) + 1]
        IN  IF Len(d) = 3 THEN d[1] * d[1] + d[2] * d[2] + d[3] * d[3]
            ELSE d[1] * d[1] + d[2] * d[2]]

\* texture_image_sizes = [self.mtllib.materials[mtl_name][1] for mtl_name
\* in self.usemtl]; f_image_size = texture_image_sizes[self.f_mtl, :]
f_image_size(g) ==
    [i \in 1..Len(g.f) |->
        Row([j \in 1..Len(g.usemtl) |->
                The({g.mtllib.materials[m].shape :
                        m \in {n \in 1..Len(g.mtllib.materials) :
                                  g.mtllib.materials[n].name = g.usemtl[j]}})],
            g.f_mtl[i])]

\* texel_tris = uv_tris * f_image_size[:, np.newaxis, :]: column 0 of vt
\* times column 0 of the shape, column 1 times column 1
texel_tris(g) ==
    [i \in 1..Len(g.f) |->
        [k \in 1..3 |->
            [a \in 1..2 |-> Row(g.vt, g.f[i][k][2])[a] * f_image_size(g)[i][a]]]]

\* xyz_tris = self.v[self.f[:, :, 0], :]
xyz_tris(g) == [i \in 1..Len(g.f) |-> [k \in 1..3 |-> Row(g.v, g.f[i][k][1])]]

\* texel_size = xyz_side_lengths[non_zero] / texel_side_lengths[non_zero],
\* sorted: the squares <<xyz length squared, texel length squared>>
sorted_texel_sizes(xyz_sq, texel_sq) ==
    LET non_zero == {e \in 1..Len(texel_sq) : texel_sq[e] # 0}
        before(d, e) ==
            \/ RatLess(<<xyz_sq[d], texel_sq[d]>>, <<xyz_sq[e], texel_sq[e]>>)
            \/ /\ ~RatLess(<<xyz_sq[e], texel_sq[e]>>, <<xyz_sq[d], texel_sq[d]>>)
               /\ d < e
    IN  [j \in 1..Cardinality(non_zero) |->
            The({<<xyz_sq[e], texel_sq[e]>> :
                    e \in {d \in non_zero :
                              Cardinality({c \in non_zero : before(c, d)}) = j - 1}})]

\* np.median(texel_size): the middle element, the mean of the two middle
\* elements, or nan (with a RuntimeWarning) for an empty array
np_median(sorted) ==
    IF sorted = <<>> THEN [kind |-> "nan", middle |-> <<>>]
    ELSE [kind |-> "finite",
          middle |-> <<sorted[((Len(sorted) + 1) \div 2)], sorted[(Len(sorted) \div 2) + 1]>>]

InitTexel ==
    /\ \E m \in 1..MaxTexelFaces :
           \E uv \in [1..m -> UvTriangles], shapes \in [1..2 -> TexelImageShapes],
              f_mtl \in [1..m -> 0..1] :
               texels = [pc |-> "sides", geom |-> TexelGeom(uv, shapes, f_mtl),
                         xyz_sq |-> <<>>, texel_side_diffs |-> <<>>, texel_sq |-> <<>>,
                         result |-> <<>>]
    /\ crop = <<>>
    /\ obj = <<>>
    /\ tsys = <<>>
    /\ rd = <<>>
    /\ mtl = <<>>
    /\ gen = <<>>
    /\ leaf = <<>>
    /\ top = <<>>
    /\ GenOff

\* xyz_side_lengths and texel_side_lengths
texel_side_lengths ==
    /\ texels.pc = "sides"
    /\ \E diffs \in {side_diffs(texel_tris(texels.geom))} :
           texels' = [texels EXCEPT
                         !.pc = "median",
                         !.xyz_sq = squared_side_lengths(side_diffs(xyz_tris(texels.geom))),
                         !.texel_side_diffs = diffs,
                         !.texel_sq = squared_side_lengths(diffs)]
    /\ UNCHANGED <<genVars, crop, obj, tsys, rd, mtl, gen, leaf, top>>

\* non_zero = ...; texel_size = ...; return np.median(texel_size)
texel_median ==
    /\ texels.pc = "median"
    /\ texels' = [texels EXCEPT
                     !.pc = "returned",
                     !.result = <<np_median(sorted_texel_sizes(texels.xyz_sq,
                                                               texels.texel_sq))>>]
    /\ UNCHANGED <<genVars, crop, obj, tsys, rd, mtl, gen, leaf, top>>

NextTexel == texel_side_lengths \/ texel_median

SpecTexel == InitTexel /\ [][NextTexel]_vars

\* The shape <<height, width>> of the image bound to the material of face i
ImageOfFace(g, i) ==
    The({g.mtllib.materials[m].shape :
            m \in {n \in 1..Len(g.mtllib.materials) :
                      g.mtllib.materials[n].name = g.usemtl[g.f_mtl[i] + 1]}})

\* C26: get_median_texel_size maps each UV edge (du, dv) of a face to the
\* pixel-space vector (du * W, dv * H), W the width and H the height of the
\* image bound to the face's material; non-square images included.
C26_TexelEdgeWidthHeight ==
    (texels # <<>> /\ texels.pc # "sides") =>
        \A i \in 1..Len(texels.geom.f) :
            \A k \in 1..3 :
                \A from \in {texels.geom.vt[texels.geom.f[i][k][2] + 1]},
                   to \in {texels.geom.vt[texels.geom.f[i][(k % 3) + 1][2] + 1]},
                   shape \in {ImageOfFace(texels.geom, i)} :
                    texels.texel_side_diffs[i][k]
                        = <<(to[1] - from[1]) * shape[2], (to[2] - from[2]) * shape[1]>>

\* C27: get_median_texel_size excludes every edge whose pixel-space length
\* is 0; it returns a finite value whenever at least one edge of the mesh
\* has non-zero pixel-space length, and it fails with an error, rather than
\* returning a value, when every edge has zero pixel-space length.
C27_DegenerateTexelEdges ==
    (texels # <<>> /\ texels.pc = "returned") =>
        \A used \in {{e \in 1..Len(texels.texel_sq) : texels.texel_sq[e] # 0}} :
            IF used = {} THEN texels.result[1].kind = "error"
            ELSE /\ texels.result[1].kind = "finite"
                 /\ \A j \in 1..2 :
                        \E e \in used :
                            texels.result[1].middle[j]
                                = <<texels.xyz_sq[e], texels.texel_sq[e]>>

----------------------------------------------------------------------------
(* The faces of the leaf tiles (Spec). *)

\* The faces of a geometry, each as the positions of its three vertices
FaceSet(g) == {[k \in 1..3 |-> Row(g.v, g.f[i][k][1])] : i \in 1..Len(g.f)}

\* The mean of the three positions of face is inside the nominal box of
\* tile, closed at the minimum corner and open at the maximum corner
CentroidInTile(face, tile) ==
    \A box \in {TileSystem_get_bounding_box(tile_system, tile)} :
        \A a \in 1..3 :
            \A sum \in {face[1][a] + face[2][a] + face[3][a]} :
                /\ 3 * box.min_corner[a] <= sum * box.den
                /\ sum * box.den < 3 * box.max_corner[a]

\* The geometry of every tile being generated is made of the faces of the
\* source mesh whose centroid is in the tile
TilesHoldTheirCentroids ==
    \A n \in 1..Len(stack) :
        (stack[n].fn = "generate_tile" /\ stack[n].pc # "crop") =>
            FaceSet(stack[n].geom)
                = {face \in FaceSet(geom) : CentroidInTile(face, stack[n].tile)}

\* The nodes of the manifest that have no children entry
LeafNodes ==
    {j \in 1..Len(NodesOf(meta[1].root.children)) :
        "children" \notin DOMAIN NodesOf(meta[1].root.children)[j]}

\* C28: with the driver's auto-configured tile system, when generate()
\* completes every face of the source mesh is contained in exactly one leaf
\* tile of the manifest tree: no face is lost and none is duplicated among
\* the leaf tiles.
C28_LeafTilesPartitionFaces ==
    /\ TilesHoldTheirCentroids
    /\ phase \in {"writing", "installing", "done"} =>
           \A nodes \in {NodesOf(meta[1].root.children)} :
               \A face \in FaceSet(geom) :
                   Cardinality({j \in LeafNodes :
                                   CentroidInTile(face, TileOfNode(nodes[j]))}) = 1

\* A finished run whose manifest has two leaf tiles below the top tile
C28_Witness ==
    /\ phase = "done"
    /\ Cardinality(LeafNodes) >= 2
    /\ Len(geom.f) >= 2

----------------------------------------------------------------------------
(* Absent texture-coordinate and normal indices through get_cropped         *)
(* (SpecCrop). *)

\* C29: Geometry.get_cropped preserves absence: for every kept face-vertex
\* whose texture-coordinate or normal index is absent in the parent
\* geometry, the same index is absent in the cropped geometry (it is never
\* remapped to a row of the cropped vt or vn array), and cropping a mesh
\* that has no vt rows or no vn rows completes without error.
C29_CropPreservesAbsence ==
    (crop # <<>> /\ crop.pc = "cropped") =>
        /\ (crop.g.vt = <<>> \/ crop.g.vn = <<>>) => crop.out.ok
        /\ crop.out.ok =>
               \A j \in 1..Len(KeptFaces) : \A k \in 1..3 : \A a \in 2..3 :
                   crop.g.f[KeptFaces[j]][k][a] < 0 => crop.out.geom.f[j][k][a] < 0

----------------------------------------------------------------------------
(* upsample_texture over images in several directories and of several      *)
(* formats (SpecUpsample). *)

\* The materials of a mesh
MaxMaterials == 3

\* Texture images as the MTL file names them: a/tex.png, b/tex.png, tex.png,
\* tex.jpg, wall.jpg
UpsampleImages ==
    {[dir |-> d, stem |-> "tex", ext |-> ".png"] : d \in {"", "a", "b"}}
    \cup {[dir |-> "", stem |-> s, ext |-> ".jpg"] : s \in {"tex", "wall"}}

\* generator = TileGenerator(out_path, ...) and a mesh whose materials are
\* bound to images, two materials possibly to one image
InitUpsample ==
    /\ \E n \in 1..MaxMaterials :
           \E images \in [1..n -> UpsampleImages] :
               gen = [calls |-> 0, up_texture_map |-> <<>>, input_texel_size |-> <<0, 1>>,
                      fs |-> <<>>,
                      materials |-> [j \in 1..n |->
                                        [name |-> <<"m", j>>, path |-> images[j],
                                         shape |-> <<4, 4>>]]]
    /\ crop = <<>>
    /\ obj = <<>>
    /\ tsys = <<>>
    /\ rd = <<>>
    /\ mtl = <<>>
    /\ leaf = <<>>
    /\ top = <<>>
    /\ texels = <<>>
    /\ GenOff

\* self.upsample_texture(geom)
gen_upsample_texture ==
    /\ gen.calls = 0
    /\ \E up \in {upsample_texture(gen.materials, gen.fs, gen.up_texture_map)} :
           gen' = [gen EXCEPT !.calls = 1, !.up_texture_map = up.up_texture_map,
                              !.fs = up.fs]
    /\ UNCHANGED <<genVars, crop, obj, tsys, rd, mtl, leaf, top, texels>>

NextUpsample == gen_upsample_texture

SpecUpsample == InitUpsample /\ [][NextUpsample]_vars

\* C30: upsample_texture gives every distinct source texture image its own
\* upsampled file: two materials bound to different image files (a/tex.png
\* and b/tex.png, or tex.jpg and tex.png) are never mapped to the same
\* output path under build/, so no upsampled image is overwritten by
\* another material's image.
C30_UpsampledImagesApart ==
    (gen # <<>> /\ gen.calls = 1) =>
        /\ \A i, j \in 1..Len(gen.materials) :
               gen.materials[i].path # gen.materials[j].path =>
                   gen.up_texture_map[gen.materials[i].path]
                       # gen.up_texture_map[gen.materials[j].path]
        /\ Cardinality({p \in DOMAIN gen.fs : p.area = "build"})
               = Cardinality({gen.materials[i].path : i \in 1..Len(gen.materials)})

====
